---- MODULE Spec2Model ----
(***************************************************************************)
(* A model of the Storm query runtime of synapse/lib/storm.py: the         *)
(* ParallelCmd fan-out, the MergeCmd diff/apply loop, the StormDmon        *)
(* supervisor loop with its DmonManager, the Runtime variable scopes and   *)
(* runtvars, the commands tee, background, view.exec, limit, count and     *)
(* PureCmd, the argument Parser and the remote-handle cache of the         *)
(* Runtime; and of the row indexes of RamStorage in synapse/cores/ram.py.  *)
(* Every subsystem has its own variables, initial predicate, next-state    *)
(* relation and specification; the variables of the other subsystems are   *)
(* held at their idle values.                                              *)
(***************************************************************************)
EXTENDS Integers, Sequences, FiniteSets, TLC

(* ------------------------------ bounds --------------------------------- *)
MaxItems == 3
\* longest upstream input stream fed to ParallelCmd
MaxSize == 2
\* largest --size (number of parallel pipelines)
MaxMergeIn == 2
\* longest input stream fed to MergeCmd
MaxFld == 1
\* most fields of one kind (props, tags, ...) a stored node holds
MaxLog == 2
\* most run-log entries a daemon collects in the model
MaxCount == 1
\* most items a daemon's query streams in the model
MaxScopes == 3
\* most Runtime objects alive in one scope forest
MaxRunts == 2
\* most Runtime objects whose runtvars are followed
MaxKids == 2
\* most operators in a query of the classification pass
MaxTeeQ == 2
\* most sub-queries given to tee
MaxTeeIn == 2
\* most items in the input of tee
MaxSubOut == 1
\* most items one execution of a sub-query of tee yields
MaxPureIn == 2
\* most items in the input of a pure command
MaxPureOut == 2
\* most items the body of a pure command yields
MaxBgIn == 3
\* most items in the input of background
MaxVeIn == 2
\* most items in the input of view.exec
MaxNested == 2
\* most items one nested query of view.exec produces
MaxArgv == 4
\* most items in the argv handed to a Parser
MaxStIn == 3
\* most items in the input of limit and of count
MaxLimit == 3
\* largest count given to limit
MaxMade == 2
\* most builtin namespace objects constructed in one scope forest

VARIABLES
    \* ---- ParallelCmd.execStormCmd (storm.py 2850-2889)
    size,       \* the --size option, after toint()
    badNodes,   \* node values on which the sub-query raises
    genrRaises, \* the upstream generator raises once its items are exhausted
    input0,     \* the items the upstream generator yields (history)
    genr,       \* the items the upstream generator has not yielded yet
    inq,        \* asyncio.Queue(maxsize=size) feeding the pipelines
    outq,       \* asyncio.Queue(maxsize=size) collecting their output
    pumpPc,     \* position of the pump() task
    pumpHold,   \* the item pump() is about to put on inq
    pumpSent,   \* sentinels pump() has still to put on inq
    workPc,     \* position of each pipeline() task
    workHold,   \* the item each pipeline() task is about to put on outq
    exited,     \* the consuming loop's count of completion sentinels
    consPc,     \* position of the consuming loop
    yielded,    \* the items the command has yielded downstream
    failed,     \* an exception was raised in pump() or in a pipeline() (history)
    workSnap,   \* the snap of the sub-runtime each pipeline() runs on
    \* ---- MergeCmd.execStormCmd (storm.py 2023-2152)
    mApply,     \* self.opts.apply
    mDiff,      \* self.opts.diff
    mParent,    \* runt.snap.view.parent is not None
    mAsroot,    \* runt.asroot
    mLayrNodes, \* the nodes layers[0].getStorNodes() enumerates
    mGenr,      \* the input items not consumed yet
    mPc,        \* position of the command's generator
    mNode,      \* the node being merged
    mSode,      \* the fields of its stored node that are still to be visited
    mAdds,      \* adds: the pending edits for layers[1]
    mSubs,      \* subs: the pending edits for layers[0]
    mCalls,     \* the storNodeEdits calls that returned for the node being merged (history)
    mConfirms,  \* the number of runt.confirm calls made for that node (history)
    mPrinted,   \* the number of lines printed for that node (history)
    mConsumed,  \* the number of input items consumed so far (history)
    mYielded,   \* the nodes yielded so far
    mErr,       \* the exception the command raised, if any
    mSodes,     \* the stored nodes node.getStorNodes() may return in this run
    \* ---- DmonManager and StormDmon (storm.py 972-1159)
    mgrEnabled, \* DmonManager.enabled
    mgrPc,      \* position of a DmonManager.stop() call in progress
    mgrFini,    \* DmonManager.isfini
    dReg,       \* the keys of DmonManager.dmons, in insertion order
    dmon,       \* the StormDmon object last created under each identifier
    viewOk,     \* core.getView(viewiden) finds the daemon's view
    runFailed,  \* the assertion of StormDmon.run failed at least once (history)
    \* ---- Runtime scopes (storm.py 1161-1440)
    rtN,        \* the number of Runtime objects created
    rtRoot,     \* Runtime.root of each, as an index (0: None)
    rtFunc,     \* Runtime.funcscope of each
    rtVars,     \* Runtime.vars of each: name -> value (NoValu: not a key)
    rtMade,     \* the number of builtin namespace objects constructed so far
    lastSet,     \* the latest operation, when it was a setVar: its arguments, and
                \* whether the name was then bound in no ancestor (fresh) and
                \* whether it was in the scope's own vars (local) (history)
    \* ---- Runtime.runtvars (storm.py 1203-1217, 1386-1393)
    rcN,        \* the number of Runtime objects whose construction has begun
    rcRoot,     \* the root argument of the constructor that is running (0: None)
    rcVarz,     \* the names of its opts['vars']
    rcKids,     \* its query.kids: what each operator's getRuntVars yields
    rcRunt,     \* runtvars of each: name -> "true", "false" or no entry
    rcPc,       \* the position of the constructor that is running
    rcIdx,       \* the number of operators _loadRuntVars has gone through
    \* ---- TeeCmd (storm.py 2891-2948)
    teeJoin,    \* self.opts.join
    teeSafe,    \* self.runtsafe
    teeK,       \* len(self.opts.query)
    teeM,       \* the number of items the input stream holds
    teePc,      \* the position of execStormCmd
    teeRunts,   \* len(runts): the sub-runtimes created so far
    teeRead,    \* the number of input items read from genr
    teeItem,    \* item: the input item being processed (0: None)
    teeCur,     \* the index in runts of the sub-runtime that is executing
    teeSubN,    \* the number of items the executing sub-query has yielded
    teeOut,     \* the items yielded so far (history)
    teeExec,     \* the executions of sub-runtimes that ended, in order (history)
    \* ---- PureCmd (storm.py 1877-1932)
    pcAsroot,   \* self.asroot: cdef.get('asroot', False)
    pcRuntRoot, \* runt.asroot of the calling runtime
    pcUserPerm, \* user.allowed(('storm', 'asroot', 'cmd', ...))
    pcM,        \* the number of items the input stream holds
    pcPc,       \* the position of execStormCmd
    pcSubr,     \* the sub-runtime of the body was created
    pcSubRoot,  \* subr.asroot
    pcBody,     \* subr.execute was started
    pcRead,     \* the number of input items the body has pulled through genx
    pcOut,      \* the number of items yielded
    pcErr,       \* the exception that left execStormCmd
    \* ---- BackgroundCmd (storm.py 2752-2802)
    bgSafe,     \* self.runtsafe
    bgM,        \* the number of items the input stream holds
    bgRaises,   \* the input stream raises instead of ending
    bgValid,    \* query.validate(runt) passes
    bgPc,       \* the position of execStormCmd
    bgRead,     \* the number of input items read from genr
    bgOut,      \* the items yielded, by their place in the input
    bgTasks,    \* the number of coroutines handed to schedCoro
    bgTask,     \* the state of the scheduled task
    bgErr,       \* the exception that left execStormCmd
    \* ---- ViewExecCmd (storm.py 2700-2750)
    veM,        \* the number of items the input stream holds
    veSafe,     \* self.runtsafe
    veViewOk,   \* snap.core.views holds the view named by the argument
    vePerm,     \* the user is allowed ('view', 'read') on that view
    vePc,       \* the position of execStormCmd
    veRead,     \* the number of input items read from genr
    veItem,     \* the input item being processed (0: node is None)
    veRuns,     \* the nested executions started: what each was given (history)
    veEnded,    \* the number of nested executions that ran to their end
    veNested,   \* the number of items the running nested query has produced
    veOut,      \* the items yielded (history)
    veErr,       \* the exception that left execStormCmd
    \* ---- Parser.parse_args and Cmd.setArgv (storm.py 1445-1830)
    psPars,     \* the parser: its allargs, as add_argument registered them
    psArgv,     \* the argv it was called with
    psPc,       \* the position in parse_args and in its caller
    psCaller,   \* who called parse_args
    psTodo,     \* todo: the items not looked at yet
    psPosargs,  \* posargs: the items that are no option and no value of one
    psOpts,     \* opts: dest -> value
    psIdx,      \* the place in self.posargs of the positional being stored
    psRetn,     \* what parse_args returned
    psMesgs,    \* Parser.mesgs
    psExited,   \* Parser.exited
    psPrinted,  \* the lines setArgv handed to runt.snap.printf
    psRet,      \* what setArgv returned
    psErr,       \* the exception that left parse_args
    \* ---- LimitCmd.execStormCmd, CountCmd.execStormCmd (storm.py 2171-2181, 2530-2538)
    stCmd,      \* the command that is executing
    stIn,       \* the items genr yields
    stLimit,    \* self.opts.count of limit
    stPc,       \* the position of execStormCmd
    stRead,     \* the number of items taken from genr
    stI,        \* the local counter (count, i)
    stOut,      \* the items yielded (history)
    stPrinted,   \* the lines handed to runt.printf
    \* ---- Runtime.getTeleProxy (storm.py 1246-1258)
    tpProxies,  \* Runtime.proxies: (url, flat) -> handle, 0 where there is no entry
    tpTask,     \* per task: the position of its getTeleProxy call and its arguments
    tpOpened,   \* the key each handle was opened for, in the order of opening (history)
    tpOnfini,   \* the handles whose fini is registered with snap.onfini
    tpRets,      \* the calls that returned: key and handle (history)
    \* ---- RamStorage (cores/ram.py 41-169)
    rowsbyid,   \* RamStorage.rowsbyid: iden -> set of rows
    rowsbyprop, \* RamStorage.rowsbyprop: prop -> set of rows
    rowsbyvalu, \* RamStorage.rowsbyvalu: (prop, valu) -> set of rows
    ramPc,      \* the operation in progress: its loop over rows
    ramTodo     \* the rows that loop has still to go through

parVars == <<size, badNodes, genrRaises, input0, genr, inq, outq, pumpPc, pumpHold,
             pumpSent, workPc, workHold, exited, consPc, yielded, failed, workSnap>>

mergeVars == <<mApply, mDiff, mParent, mAsroot, mLayrNodes, mGenr, mPc, mNode, mSode,
               mAdds, mSubs, mCalls, mConfirms, mPrinted, mConsumed, mYielded, mErr, mSodes>>

dmonVars == <<mgrEnabled, mgrPc, mgrFini, dReg, dmon, viewOk, runFailed>>

scopeVars == <<rtN, rtRoot, rtFunc, rtVars, rtMade, lastSet>>

rcVars == <<rcN, rcRoot, rcVarz, rcKids, rcRunt, rcPc, rcIdx>>

teeVars == <<teeJoin, teeSafe, teeK, teeM, teePc, teeRunts, teeRead, teeItem,
            teeCur, teeSubN, teeOut, teeExec>>

pureVars == <<pcAsroot, pcRuntRoot, pcUserPerm, pcM, pcPc, pcSubr, pcSubRoot, pcBody,
             pcRead, pcOut, pcErr>>

bgVars == <<bgSafe, bgM, bgRaises, bgValid, bgPc, bgRead, bgOut, bgTasks, bgTask, bgErr>>

viewVars == <<veM, veSafe, veViewOk, vePerm, vePc, veRead, veItem, veRuns, veEnded,
             veNested, veOut, veErr>>

parsVars == <<psPars, psArgv, psPc, psCaller, psTodo, psPosargs, psOpts, psIdx, psRetn,
              psMesgs, psExited, psPrinted, psRet, psErr>>

streamVars == <<stCmd, stIn, stLimit, stPc, stRead, stI, stOut, stPrinted>>

proxVars == <<tpProxies, tpTask, tpOpened, tpOnfini, tpRets>>

ramVars == <<rowsbyid, rowsbyprop, rowsbyvalu, ramPc, ramTodo>>

vars == <<parVars, mergeVars, dmonVars, scopeVars, rcVars, teeVars, pureVars, bgVars, viewVars, parsVars, streamVars, proxVars, ramVars>>

(* ======================================================================= *)
(*                     ParallelCmd (storm.py 2804-2889)                    *)
(* ======================================================================= *)
Nodes == {"n1", "n2"}
None == "None"
Exc == "Exception"
Workers == 1..MaxSize

SeqsUpTo(S, n) == UNION {[1..k -> S] : k \in 0..n}

\* the multiset of the elements of a sequence
SeqBag(s) == [x \in {s[i] : i \in DOMAIN s} |-> Cardinality({i \in DOMAIN s : s[i] = x})]

\* asyncio.Queue(maxsize): put() blocks while the queue holds maxsize items;
\* a maxsize <= 0 means an unbounded queue.
QFull(q) == size > 0 /\ Len(q) >= size

\* a pump that enqueues one sentinel too few
SentinelCountShort == IF size > 1 THEN size - 1 ELSE size

\* the number of end-of-input sentinels pump() enqueues: range(size)
SentinelCount == size

\* what the sub-query yields for one input item: the claims are about a
\* sub-query that emits each item it receives
SubQuery(item) == item

\* async with base: leaving the block finis the base, which cancels every
\* task scheduled on it that has not finished
CancelPc(pc) == IF pc = "done" THEN pc ELSE "cancelled"

\* the snap of the Runtime that executes the command
RuntSnap == "runt.snap"

\* getSubRuntime(query, opts): snap = self.snap, replaced by a snap opened
\* on the view only when opts names a view
SubRuntimeSnap(runtsnap, view, opened) == IF view # None THEN opened ELSE runtsnap

\* pipeline(): async with runt.getSubRuntime(query) as subr, without opts
PipelineSnap(w) == SubRuntimeSnap(RuntSnap, None, "view.snap")

ParInit ==
    /\ size \in 1..MaxSize
    /\ badNodes \in {{}, {"n2"}}
    /\ genrRaises \in BOOLEAN
    /\ input0 \in SeqsUpTo(Nodes, MaxItems)
    /\ genr = input0
    /\ inq = <<>>
    /\ outq = <<>>
    /\ pumpPc = "iter"
    /\ pumpHold = None
    /\ pumpSent = 0
    /\ workPc = [w \in Workers |-> IF w <= size THEN "get" ELSE "unused"]
    /\ workHold = [w \in Workers |-> None]
    /\ exited = 0
    /\ consPc = "get"
    /\ yielded = <<>>
    /\ failed = FALSE
    /\ workSnap = [w \in Workers |-> IF w <= size THEN PipelineSnap(w) ELSE None]

\* the values toint(self.opts.size) can give: --size has no type and no
\* range, so zero and negative widths reach execStormCmd
ParWidths == (0 - 1)..MaxSize

\* the state at the first await of execStormCmd for any width: pump() and
\* range(size) pipelines are scheduled, the queues are empty
ParAnyInit ==
    /\ size \in ParWidths
    /\ badNodes \in {{}, {"n2"}}
    /\ genrRaises \in BOOLEAN
    /\ input0 \in SeqsUpTo(Nodes, MaxItems)
    /\ genr = input0
    /\ inq = <<>>
    /\ outq = <<>>
    /\ pumpPc = "iter"
    /\ pumpHold = None
    /\ pumpSent = 0
    /\ workPc = [w \in Workers |-> IF w <= size THEN "get" ELSE "unused"]
    /\ workHold = [w \in Workers |-> None]
    /\ exited = 0
    /\ consPc = "get"
    /\ yielded = <<>>
    /\ failed = FALSE
    /\ workSnap = [w \in Workers |-> IF w <= size THEN PipelineSnap(w) ELSE None]

\* what no step of the command changes
ParConst == UNCHANGED <<size, badNodes, genrRaises, input0, workSnap, mergeVars, dmonVars, scopeVars, rcVars, teeVars, pureVars, bgVars, viewVars, parsVars, streamVars, proxVars, ramVars>>

\* async for pumpitem in genr
PumpIter ==
    /\ pumpPc = "iter"
    /\ IF genr # <<>>
         THEN /\ pumpHold' = Head(genr)
              /\ genr' = Tail(genr)
              /\ pumpPc' = "put"
              /\ UNCHANGED <<pumpSent, failed>>
         ELSE /\ IF genrRaises
                   THEN pumpPc' = "err" /\ failed' = TRUE /\ pumpSent' = pumpSent
                   ELSE /\ failed' = failed
                        /\ pumpSent' = SentinelCount
                        /\ pumpPc' = IF SentinelCount > 0 THEN "sentinels" ELSE "done"
              /\ UNCHANGED <<pumpHold, genr>>
    /\ UNCHANGED <<inq, outq, workPc, workHold, exited, consPc, yielded>>
    /\ ParConst

\* await inq.put(pumpitem)
PumpPut ==
    /\ pumpPc = "put"
    /\ ~QFull(inq)
    /\ inq' = Append(inq, pumpHold)
    /\ pumpHold' = None
    /\ pumpPc' = "iter"
    /\ UNCHANGED <<genr, outq, pumpSent, workPc, workHold, exited, consPc, yielded, failed>>
    /\ ParConst

\* [await inq.put(None) for i in range(size)]
PumpSentinel ==
    /\ pumpPc = "sentinels"
    /\ ~QFull(inq)
    /\ inq' = Append(inq, None)
    /\ pumpSent' = pumpSent - 1
    /\ pumpPc' = IF pumpSent = 1 THEN "done" ELSE "sentinels"
    /\ UNCHANGED <<genr, outq, pumpHold, workPc, workHold, exited, consPc, yielded, failed>>
    /\ ParConst

\* except Exception as e: await outq.put(e)
PumpErr ==
    /\ pumpPc = "err"
    /\ ~QFull(outq)
    /\ outq' = Append(outq, Exc)
    /\ pumpPc' = "done"
    /\ UNCHANGED <<genr, inq, pumpHold, pumpSent, workPc, workHold, exited, consPc, yielded, failed>>
    /\ ParConst

Pump == PumpIter \/ PumpPut \/ PumpSentinel \/ PumpErr

\* a pipeline that reports completion where it should forward the exception
PipelineErrAsDone == None

\* what a pipeline() puts on outq when its sub-runtime raised
PipelineErrValue == Exc

\* nextitem(): item = await inq.get(); the sub-runtime then runs the
\* sub-query on it (or ends, on the sentinel)
WorkerGet(w) ==
    /\ workPc[w] = "get"
    /\ inq # <<>>
    /\ inq' = Tail(inq)
    /\ IF Head(inq) = None
         THEN /\ workPc' = [workPc EXCEPT ![w] = "fin"]
              /\ UNCHANGED <<workHold, failed>>
         ELSE IF Head(inq) \in badNodes
                THEN /\ workPc' = [workPc EXCEPT ![w] = "err"]
                     /\ failed' = TRUE
                     /\ UNCHANGED workHold
                ELSE /\ workPc' = [workPc EXCEPT ![w] = "put"]
                     /\ workHold' = [workHold EXCEPT ![w] = SubQuery(Head(inq))]
                     /\ UNCHANGED failed
    /\ UNCHANGED <<genr, outq, pumpPc, pumpHold, pumpSent, exited, consPc, yielded>>
    /\ ParConst

\* await outq.put(item)
WorkerPut(w) ==
    /\ workPc[w] = "put"
    /\ ~QFull(outq)
    /\ outq' = Append(outq, workHold[w])
    /\ workHold' = [workHold EXCEPT ![w] = None]
    /\ workPc' = [workPc EXCEPT ![w] = "get"]
    /\ UNCHANGED <<genr, inq, pumpPc, pumpHold, pumpSent, exited, consPc, yielded, failed>>
    /\ ParConst

\* await outq.put(None)
WorkerFin(w) ==
    /\ workPc[w] = "fin"
    /\ ~QFull(outq)
    /\ outq' = Append(outq, None)
    /\ workPc' = [workPc EXCEPT ![w] = "done"]
    /\ UNCHANGED <<genr, inq, pumpPc, pumpHold, pumpSent, workHold, exited, consPc, yielded, failed>>
    /\ ParConst

\* except Exception as e: await outq.put(e)
WorkerErr(w) ==
    /\ workPc[w] = "err"
    /\ ~QFull(outq)
    /\ outq' = Append(outq, PipelineErrValue)
    /\ workPc' = [workPc EXCEPT ![w] = "done"]
    /\ UNCHANGED <<genr, inq, pumpPc, pumpHold, pumpSent, workHold, exited, consPc, yielded, failed>>
    /\ ParConst

Worker(w) == WorkerGet(w) \/ WorkerPut(w) \/ WorkerFin(w) \/ WorkerErr(w)

\* the consuming loop: item = await outq.get() and what follows it
Consume ==
    /\ consPc = "get"
    /\ outq # <<>>
    /\ outq' = Tail(outq)
    /\ IF Head(outq) = Exc
         THEN /\ consPc' = "raised"
              /\ UNCHANGED <<exited, yielded>>
         ELSE IF Head(outq) = None
                THEN /\ exited' = exited + 1
                     /\ consPc' = IF exited + 1 = size THEN "done" ELSE "get"
                     /\ UNCHANGED yielded
                ELSE /\ yielded' = Append(yielded, Head(outq))
                     /\ UNCHANGED <<exited, consPc>>
    /\ IF consPc' = "get"
         THEN UNCHANGED <<pumpPc, workPc>>
         ELSE /\ pumpPc' = CancelPc(pumpPc)
              /\ workPc' = [w \in Workers |-> IF workPc[w] = "unused" THEN "unused" ELSE CancelPc(workPc[w])]
    /\ UNCHANGED <<genr, inq, pumpHold, pumpSent, workHold, failed>>
    /\ ParConst

ParNext == Pump \/ (\E w \in Workers : Worker(w)) \/ Consume

(* ======================================================================= *)
(*                      MergeCmd (storm.py 1998-2152)                      *)
(* ======================================================================= *)
NodeIds == {"a", "b"}
NoNode == "nonode"

\* the kinds of field of a stored node, in the order execStormCmd visits them
Kinds == <<"valu", "props", "tags", "tagprops", "data", "edges">>

\* the edit each kind of field stages for the base layer and for the fork layer
AddEdit == [valu |-> "EDIT_NODE_ADD", props |-> "EDIT_PROP_SET", tags |-> "EDIT_TAG_SET",
            tagprops |-> "EDIT_TAGPROP_SET", data |-> "EDIT_NODEDATA_SET", edges |-> "EDIT_EDGE_ADD"]
SubEdit == [valu |-> "EDIT_NODE_DEL", props |-> "EDIT_PROP_DEL", tags |-> "EDIT_TAG_DEL",
            tagprops |-> "EDIT_TAGPROP_DEL", data |-> "EDIT_NODEDATA_DEL", edges |-> "EDIT_EDGE_DEL"]
AddEdits == {AddEdit[k] : k \in DOMAIN AddEdit}
SubEdits == {SubEdit[k] : k \in DOMAIN SubEdit}

\* the kinds whose loop checks the batch size after staging
FlushKinds == {"data", "edges"}
FlushSize == 1000

\* a stored node: how many fields of each kind it holds (valu: 0 or 1)
Sodes == [valu : 0..1, props : 0..MaxFld, tags : 0..MaxFld, tagprops : 0..MaxFld,
          data : 0..MaxFld, edges : 0..MaxFld]
NoSode == [valu |-> 0, props |-> 0, tags |-> 0, tagprops |-> 0, data |-> 0, edges |-> 0]

\* stored nodes with as many fields as a batch holds edits: one with more
\* props than FlushSize, one with FlushSize node data items and an edge
BigSodes == {[NoSode EXCEPT !.props = FlushSize + 1],
             [NoSode EXCEPT !.data = FlushSize, !.edges = 1]}

\* sequences without repetition
NoDupSeqs(S, n) == {q \in SeqsUpTo(S, n) : \A i, j \in DOMAIN q : q[i] = q[j] => i = j}

\* the guard of execStormCmd: the view must have a parent
IsForkUnchecked == TRUE

IsFork == mParent

\* sync() with the two layers exchanged
SyncSwapped(calls, node, adds, subs) ==
    IF ~mApply THEN calls
    ELSE calls
         \o (IF adds # <<>> THEN <<[layr |-> 0, buid |-> node, edits |-> adds]>> ELSE <<>>)
         \o (IF subs # <<>> THEN <<[layr |-> 1, buid |-> node, edits |-> subs]>> ELSE <<>>)

\* a sync() that never retracts from layers[0]
SyncAddsOnly(calls, node, adds, subs) ==
    IF ~mApply THEN calls
    ELSE calls \o (IF adds # <<>> THEN <<[layr |-> 1, buid |-> node, edits |-> adds]>> ELSE <<>>)

\* sync(): the storNodeEdits calls it makes; layers[1] gets adds, then
\* layers[0] gets subs; both lists are cleared by every call of sync()
Sync(calls, node, adds, subs) ==
    IF ~mApply THEN calls
    ELSE calls
         \o (IF adds # <<>> THEN <<[layr |-> 1, buid |-> node, edits |-> adds]>> ELSE <<>>)
         \o (IF subs # <<>> THEN <<[layr |-> 0, buid |-> node, edits |-> subs]>> ELSE <<>>)

\* the storNodeEdits call of sync() that raises, if one does: sync() makes
\* no call in preview mode and none for an empty list
SyncFaults(adds, subs) ==
    IF ~mApply THEN {"none"}
    ELSE {"none"} \cup (IF adds # <<>> THEN {"adds"} ELSE {})
                  \cup (IF subs # <<>> THEN {"subs"} ELSE {})

\* a sync() that retracts from layers[0] before it adds to layers[1]
SyncRaisedSubsFirst(calls, node, adds, subs, at) ==
    IF at = "adds" /\ subs # <<>>
    THEN Append(calls, [layr |-> 0, buid |-> node, edits |-> subs])
    ELSE calls

\* the calls that have returned when a storNodeEdits call of sync() raises:
\* none if it is the call on layers[1], that one if it is the call on layers[0]
SyncRaised(calls, node, adds, subs, at) ==
    IF at = "subs" /\ adds # <<>>
    THEN Append(calls, [layr |-> 1, buid |-> node, edits |-> adds])
    ELSE calls

\* the first kind, in visiting order, of which the stored node has a field left
NextKind(sode) ==
    LET left == {i \in DOMAIN Kinds : sode[Kinds[i]] > 0}
    IN  IF left = {} THEN "none"
        ELSE Kinds[CHOOSE i \in left : \A j \in left : i <= j]

MergeInit ==
    /\ mApply \in BOOLEAN
    /\ mDiff \in BOOLEAN
    /\ mParent \in BOOLEAN
    /\ mAsroot \in BOOLEAN
    /\ mGenr \in SeqsUpTo(NodeIds, MaxMergeIn)
    /\ mLayrNodes \in IF mDiff THEN NoDupSeqs(NodeIds, MaxMergeIn) ELSE {<<>>}
    /\ mPc = "start"
    /\ mNode = NoNode
    /\ mSode = NoSode
    /\ mAdds = <<>>
    /\ mSubs = <<>>
    /\ mCalls = <<>>
    /\ mConfirms = 0
    /\ mPrinted = 0
    /\ mConsumed = 0
    /\ mYielded = <<>>
    /\ mErr = "none"
    /\ mSodes = Sodes

\* merge --apply in a fork whose nodes hold as many fields as a batch holds
\* edits, or more
MergeBigInit ==
    /\ mApply = TRUE
    /\ mDiff \in BOOLEAN
    /\ mParent = TRUE
    /\ mAsroot \in BOOLEAN
    /\ mGenr = <<"a">>
    /\ mLayrNodes = IF mDiff THEN <<"b">> ELSE <<>>
    /\ mPc = "start"
    /\ mNode = NoNode
    /\ mSode = NoSode
    /\ mAdds = <<>>
    /\ mSubs = <<>>
    /\ mCalls = <<>>
    /\ mConfirms = 0
    /\ mPrinted = 0
    /\ mConsumed = 0
    /\ mYielded = <<>>
    /\ mErr = "none"
    /\ mSodes = BigSodes

\* what no step of the command changes
MergeConst == UNCHANGED <<mApply, mDiff, mParent, mAsroot, mLayrNodes, mSodes, parVars, dmonVars, scopeVars, rcVars, teeVars, pureVars, bgVars, viewVars, parsVars, streamVars, proxVars, ramVars>>

\* the first lines of the generator: the fork check, then the layer idens
MergeStart ==
    /\ mPc = "start"
    /\ IF ~IsFork
         THEN mPc' = "raised" /\ mErr' = "CantMergeView"
         ELSE mPc' = (IF mDiff THEN "pass" ELSE "next") /\ mErr' = mErr
    /\ UNCHANGED <<mGenr, mNode, mSode, mAdds, mSubs, mCalls, mConfirms, mPrinted,
                   mConsumed, mYielded>>
    /\ MergeConst

\* --diff: the input is passed through, then genr becomes diffgenr()
MergePass ==
    /\ mPc = "pass"
    /\ IF mGenr # <<>>
         THEN /\ mYielded' = Append(mYielded, Head(mGenr))
              /\ mGenr' = Tail(mGenr)
              /\ mConsumed' = mConsumed + 1
              /\ mPc' = mPc
         ELSE /\ mGenr' = mLayrNodes
              /\ mPc' = "next"
              /\ UNCHANGED <<mYielded, mConsumed>>
    /\ UNCHANGED <<mNode, mSode, mAdds, mSubs, mCalls, mConfirms, mPrinted, mErr>>
    /\ MergeConst

\* async for node, path in genr: ... sode = (await node.getStorNodes())[0]
MergePull ==
    /\ mPc = "next"
    /\ IF mGenr = <<>>
         THEN /\ mPc' = "done"
              /\ UNCHANGED <<mGenr, mNode, mSode, mConsumed, mCalls, mConfirms, mPrinted>>
         ELSE /\ mNode' = Head(mGenr)
              /\ mCalls' = <<>>
              /\ mConfirms' = 0
              /\ mPrinted' = 0
              /\ mGenr' = Tail(mGenr)
              /\ mConsumed' = mConsumed + (IF mDiff THEN 0 ELSE 1)
              /\ mSode' \in mSodes
              /\ mPc' = "fields"
    /\ UNCHANGED <<mAdds, mSubs, mYielded, mErr>>
    /\ MergeConst

\* one field of the stored node: the two permission checks, then the
\* printed line (preview) or the two staged edits (apply), and in the node
\* data and edge loops the flush of a batch that reached FlushSize
MergeField ==
    /\ mPc = "fields"
    /\ NextKind(mSode) # "none"
    /\ LET k == NextKind(mSode)
           adds == Append(mAdds, AddEdit[k])
           subs == Append(mSubs, SubEdit[k])
           flush == k \in FlushKinds /\ Len(adds) >= FlushSize
       IN  \E perm \in (IF mAsroot THEN {"ok"} ELSE {"ok", "denydel", "denyadd"}) :
             IF perm # "ok"
               THEN /\ mPc' = "raised"
                    /\ mErr' = "AuthDeny"
                    /\ mConfirms' = mConfirms + (IF perm = "denydel" THEN 1 ELSE 2)
                    /\ UNCHANGED <<mSode, mAdds, mSubs, mCalls, mPrinted>>
               ELSE /\ mConfirms' = mConfirms + 2
                    /\ mSode' = [mSode EXCEPT ![k] = @ - 1]
                    /\ IF ~mApply
                         THEN /\ mPrinted' = mPrinted + 1
                              /\ UNCHANGED <<mAdds, mSubs, mCalls, mPc, mErr>>
                         ELSE /\ mPrinted' = mPrinted
                              /\ IF ~flush
                                   THEN /\ mAdds' = adds /\ mSubs' = subs
                                        /\ UNCHANGED <<mCalls, mPc, mErr>>
                                   ELSE \E at \in SyncFaults(adds, subs) :
                                          IF at = "none"
                                            THEN /\ mCalls' = Sync(mCalls, mNode, adds, subs)
                                                 /\ mAdds' = <<>> /\ mSubs' = <<>>
                                                 /\ UNCHANGED <<mPc, mErr>>
                                            ELSE /\ mCalls' = SyncRaised(mCalls, mNode, adds, subs, at)
                                                 /\ mAdds' = (IF at = "subs" THEN <<>> ELSE adds)
                                                 /\ mSubs' = subs
                                                 /\ mPc' = "raised" /\ mErr' = "StorErr"
    /\ UNCHANGED <<mGenr, mNode, mConsumed, mYielded>>
    /\ MergeConst

\* after the last field: await sync(), drop the cached node, yield it again
MergeYield ==
    /\ mPc = "fields"
    /\ NextKind(mSode) = "none"
    /\ \E at \in SyncFaults(mAdds, mSubs) :
         IF at = "none"
           THEN /\ mCalls' = Sync(mCalls, mNode, mAdds, mSubs)
                /\ mAdds' = <<>>
                /\ mSubs' = <<>>
                /\ mYielded' = Append(mYielded, mNode)
                /\ mPc' = "next"
                /\ UNCHANGED mErr
           ELSE /\ mCalls' = SyncRaised(mCalls, mNode, mAdds, mSubs, at)
                /\ mAdds' = (IF at = "subs" THEN <<>> ELSE mAdds)
                /\ mSubs' = mSubs
                /\ mPc' = "raised" /\ mErr' = "StorErr"
                /\ UNCHANGED mYielded
    /\ UNCHANGED <<mGenr, mNode, mSode, mConfirms, mPrinted, mConsumed>>
    /\ MergeConst

MergeNext == MergeStart \/ MergePass \/ MergePull \/ MergeField \/ MergeYield

(* ======================================================================= *)
(*             DmonManager and StormDmon (storm.py 972-1159)               *)
(* ======================================================================= *)
Dmons == {"d1"}

\* collections.deque((), 2000)
RunLogMax == 2000

\* the positions of a dmonloop() coroutine at which it can be suspended:
\*   new    scheduled by schedCoro, not run yet
\*   top    about to evaluate "while not self.isfini" (after boss.promote,
\*          or after waitfini returned)
\*   snap   inside the try block, awaiting core.snap()
\*   stream inside the try block, awaiting the next item of snap.storm()
\*   wait   awaiting self.waitfini(timeout=1)
LivePcs == {"new", "top", "snap", "stream", "wait"}
TryPcs == {"snap", "stream"}

\* StormDmon.__anit__
NewDmon(enabled) ==
    [ddefEnabled |-> enabled, task |-> "none", pc |-> "none", dying |-> "none",
     status |-> "initialized", runlog |-> <<>>, err |-> FALSE, count |-> 0,
     isfini |-> FALSE, runBy |-> "none", orphan |-> FALSE]

\* _runLogAdd on a deque of RunLogMax entries
RunLogAdd(log, entry) ==
    IF Len(log) >= RunLogMax THEN Append(Tail(log), entry) ELSE Append(log, entry)

\* StormDmon.stop: cancel the task, if any, and forget it.  A coroutine that
\* has run receives CancelledError where it is suspended; one that has not
\* run yet, or has returned, executes nothing more.
StopDmon(r) ==
    IF r.task = "none" THEN r
    ELSE [r EXCEPT !.task = "none",
                   !.pc = "none",
                   !.dying = IF r.pc \in LivePcs \ {"new"} THEN r.pc ELSE r.dying]

\* StormDmon.run: assert self.task is None; schedule dmonloop()
RunOk(r) == r.task = "none"
RunDmon(r, by) == [r EXCEPT !.task = "set", !.pc = "new", !.runBy = by]

\* Base.fini: isfini is set and the onfini handler (self.stop) runs
FiniDmon(r) == [StopDmon(r) EXCEPT !.isfini = TRUE]

\* the effect on the daemon of CancelledError arriving at position pc:
\* the handler of the try block sets the status; elsewhere nothing is set
CancelStatus(pc, status) == IF pc \in TryPcs THEN "stopped" ELSE status

\* the condition under which addDmon runs the new daemon
AddStartsAlways(enabled) == mgrEnabled

AddStarts(enabled) == mgrEnabled /\ enabled

\* a loop that ends every run of the query as a normal exit
ExcOutcomeSilent(r, kind) == [r EXCEPT !.status = "sleeping", !.pc = "wait"]

\* how the try block of dmonloop ends when the query (or core.snap) ends
\* with kind: "exit" (normal exit), "stormexit" (StormExit) or "exc" (any
\* other Exception); the coroutine then waits at the bottom of the loop
ExcOutcome(r, kind) ==
    IF kind \in {"exit", "stormexit"}
      THEN [r EXCEPT !.status = "sleeping", !.pc = "wait"]
      ELSE [r EXCEPT !.runlog = RunLogAdd(r.runlog, "err"), !.status = "error",
                     !.err = TRUE, !.pc = "wait"]

\* a loop that waits and retries where it should give the daemon up
TopOutcomeRetry(r, viewok) ==
    IF r.isfini THEN [r EXCEPT !.pc = "exited", !.runBy = "ran"]
    ELSE IF ~viewok THEN [r EXCEPT !.status = "fatal", !.pc = "wait", !.runBy = "ran"]
    ELSE [r EXCEPT !.status = "running", !.pc = "snap", !.runBy = "ran"]

\* the head of the loop: while not self.isfini; the view is looked up and
\* the loop returns with a fatal error if there is none; else the try block
\* is entered: status running, await core.snap()
TopOutcome(r, viewok) ==
    IF r.isfini THEN [r EXCEPT !.pc = "exited", !.runBy = "ran"]
    ELSE IF ~viewok THEN [r EXCEPT !.status = "fatal", !.pc = "exited", !.runBy = "ran"]
    ELSE [r EXCEPT !.status = "running", !.pc = "snap", !.runBy = "ran"]

DmonInit ==
    /\ mgrEnabled = FALSE
    /\ mgrPc = "idle"
    /\ mgrFini = FALSE
    /\ dReg = <<>>
    /\ dmon = [d \in Dmons |-> NewDmon(TRUE)]
    /\ viewOk \in [Dmons -> BOOLEAN]
    /\ runFailed = FALSE

DmonConst == UNCHANGED <<parVars, mergeVars, scopeVars, rcVars, teeVars, pureVars, bgVars, viewVars, parsVars, streamVars, proxVars, ramVars>>

Registered(d) == \E i \in DOMAIN dReg : dReg[i] = d

\* the coroutine of d's current task may take a step: the event loop runs
\* the cancelled coroutine of a replaced task first
CanStep(d) == dmon[d].pc \in LivePcs /\ dmon[d].dying = "none"

\* ---- the manager's operations
\* DmonManager.addDmon(iden, ddef): a new StormDmon replaces what was
\* registered under iden; a replaced daemon is not stopped: if its task is
\* alive (not cancelled, coroutine not returned) the manager no longer
\* reaches it, which the orphan field of the identifier records
AddDmon(d, enabled) ==
    /\ ~mgrFini
    /\ LET old == dmon[d]
           new == [NewDmon(enabled) EXCEPT
                     !.orphan = old.orphan \/ (Registered(d) /\ old.pc \in LivePcs)]
       IN  dmon' = [dmon EXCEPT ![d] = IF AddStarts(enabled) THEN RunDmon(new, "addDmon") ELSE new]
    /\ dReg' = IF Registered(d) THEN dReg ELSE Append(dReg, d)
    /\ UNCHANGED <<mgrEnabled, mgrPc, mgrFini, viewOk, runFailed>>
    /\ DmonConst

\* DmonManager.popDmon(iden)
PopDmon(d) ==
    /\ ~mgrFini
    /\ Registered(d)
    /\ dReg' = SelectSeq(dReg, LAMBDA x : x # d)
    /\ dmon' = [dmon EXCEPT ![d] = FiniDmon(@)]
    /\ UNCHANGED <<mgrEnabled, mgrPc, mgrFini, viewOk, runFailed>>
    /\ DmonConst

\* the daemons start() has run when its loop reaches index i of dReg, and
\* whether an assertion has ended the loop
RECURSIVE StartLoop(_, _)
StartLoop(ds, i) ==
    IF i > Len(dReg) THEN [ds |-> ds, ok |-> TRUE]
    ELSE IF ~RunOk(ds[dReg[i]]) THEN [ds |-> ds, ok |-> FALSE]
    ELSE StartLoop([ds EXCEPT ![dReg[i]] = RunDmon(@, "start")], i + 1)

\* DmonManager.start()
MgrStart ==
    /\ ~mgrFini
    /\ ~mgrEnabled
    /\ LET res == StartLoop(dmon, 1)
       IN  /\ dmon' = res.ds
           /\ mgrEnabled' = res.ok
           /\ runFailed' = (runFailed \/ ~res.ok)
    /\ UNCHANGED <<mgrPc, mgrFini, dReg, viewOk>>
    /\ DmonConst

\* DmonManager.stop(), up to the await of the gathered dmon.stop() calls
MgrStop ==
    /\ ~mgrFini
    /\ mgrEnabled
    /\ mgrPc = "idle"
    /\ dmon' = [d \in Dmons |-> IF Registered(d) THEN StopDmon(dmon[d]) ELSE dmon[d]]
    /\ mgrPc' = "stopping"
    /\ UNCHANGED <<mgrEnabled, mgrFini, dReg, viewOk, runFailed>>
    /\ DmonConst

\* DmonManager.stop(), after the await: self.enabled = False
MgrStopDone ==
    /\ mgrPc = "stopping"
    /\ mgrPc' = "idle"
    /\ mgrEnabled' = FALSE
    /\ UNCHANGED <<mgrFini, dReg, dmon, viewOk, runFailed>>
    /\ DmonConst

\* DmonManager.fini(): _finiAllDmons
MgrFini ==
    /\ ~mgrFini
    /\ mgrFini' = TRUE
    /\ dmon' = [d \in Dmons |-> IF Registered(d) THEN FiniDmon(dmon[d]) ELSE dmon[d]]
    /\ UNCHANGED <<mgrEnabled, mgrPc, dReg, viewOk, runFailed>>
    /\ DmonConst

\* ---- the daemon's own operations
\* StormDmon.stop()
DmonStop(d) ==
    /\ Registered(d)
    /\ dmon[d].task # "none"
    /\ dmon' = [dmon EXCEPT ![d] = StopDmon(@)]
    /\ UNCHANGED <<mgrEnabled, mgrPc, mgrFini, dReg, viewOk, runFailed>>
    /\ DmonConst

\* StormDmon.bump(): stop(), then run()
DmonBump(d) ==
    /\ Registered(d)
    /\ ~dmon[d].isfini
    /\ dmon' = [dmon EXCEPT ![d] = RunDmon(StopDmon(@), "bump")]
    /\ UNCHANGED <<mgrEnabled, mgrPc, mgrFini, dReg, viewOk, runFailed>>
    /\ DmonConst

\* ---- the environment: the daemon's view is removed or (re)created
ViewSet(d) ==
    /\ viewOk' = [viewOk EXCEPT ![d] = ~@]
    /\ UNCHANGED <<mgrEnabled, mgrPc, mgrFini, dReg, dmon, runFailed>>
    /\ DmonConst

\* ---- dmonloop()
DmonFrame == UNCHANGED <<mgrEnabled, mgrPc, mgrFini, dReg, viewOk, runFailed>> /\ DmonConst

\* the cancelled coroutine of a stopped task receives CancelledError
CancelDeliver(d) ==
    /\ dmon[d].dying # "none"
    /\ dmon' = [dmon EXCEPT ![d].status = CancelStatus(dmon[d].dying, @), ![d].dying = "none"]
    /\ DmonFrame

\* the first step of the coroutine: s_scope.set, await boss.promote
DmonBegin(d) ==
    /\ CanStep(d)
    /\ dmon[d].pc = "new"
    /\ dmon' = [dmon EXCEPT ![d].pc = "top"]
    /\ DmonFrame

\* one pass through the head of the loop
DmonTop(d) ==
    /\ CanStep(d)
    /\ dmon[d].pc = "top"
    /\ dmon' = [dmon EXCEPT ![d] = TopOutcome(@, viewOk[d])]
    /\ DmonFrame

\* core.snap() returns: the handlers are registered, err_evnt is cleared
DmonSnap(d) ==
    /\ CanStep(d)
    /\ dmon[d].pc = "snap"
    /\ dmon' = [dmon EXCEPT ![d].err = FALSE, ![d].pc = "stream"]
    /\ DmonFrame

\* snap.storm() yields a node: self.count += 1; await asyncio.sleep(0)
DmonItem(d) ==
    /\ CanStep(d)
    /\ dmon[d].pc = "stream"
    /\ dmon[d].count < MaxCount
    /\ dmon' = [dmon EXCEPT ![d].count = @ + 1]
    /\ DmonFrame

\* the query prints or warns: dmonPrint / dmonWarn add the event to the log
DmonEvent(d, evnt) ==
    /\ CanStep(d)
    /\ dmon[d].pc = "stream"
    /\ Len(dmon[d].runlog) < MaxLog
    /\ dmon' = [dmon EXCEPT ![d].runlog = RunLogAdd(@, evnt)]
    /\ DmonFrame

\* the query ends, or the query or core.snap() raises an exception
DmonEnd(d, kind) ==
    /\ CanStep(d)
    /\ \/ dmon[d].pc = "stream"
       \/ dmon[d].pc = "snap" /\ kind = "exc"
    /\ kind = "exc" => Len(dmon[d].runlog) < MaxLog
    /\ dmon' = [dmon EXCEPT ![d] = ExcOutcome(@, kind)]
    /\ DmonFrame

\* waitfini(timeout=1) returns, on the timeout or on fini
DmonWake(d) ==
    /\ CanStep(d)
    /\ dmon[d].pc = "wait"
    /\ dmon' = [dmon EXCEPT ![d].pc = "top"]
    /\ DmonFrame

DmonLoop(d) ==
    \/ CancelDeliver(d) \/ DmonBegin(d) \/ DmonTop(d) \/ DmonSnap(d) \/ DmonItem(d)
    \/ (\E evnt \in {"print", "warn"} : DmonEvent(d, evnt))
    \/ (\E kind \in {"exit", "stormexit", "exc"} : DmonEnd(d, kind))
    \/ DmonWake(d)

DmonNext ==
    \/ (\E d \in Dmons, enabled \in BOOLEAN : AddDmon(d, enabled))
    \/ (\E d \in Dmons : PopDmon(d))
    \/ MgrStart \/ MgrStop \/ MgrStopDone \/ MgrFini
    \/ (\E d \in Dmons : DmonStop(d))
    \/ (\E d \in Dmons : DmonBump(d))
    \/ (\E d \in Dmons : ViewSet(d))
    \/ (\E d \in Dmons : DmonLoop(d))

(* ======================================================================= *)
(*                   Runtime scopes (storm.py 1161-1440)                   *)
(* ======================================================================= *)
Scopes == 1..MaxScopes
Names == {"x", "lib"}
\* self.ctors = {'lib': s_stormtypes.LibBase}
Ctors == {"lib"}
Vals == {"v1", "v2"}
\* the values the modelled queries assign (construction options supply v1)
SetVals == {"v2"}
\* s_common.novalu: the name is not a key of the dict
NoValu == "novalu"
\* the default of getVar's defv
DefV == "None"
\* what the k-th call of the constructor of the builtin namespace returns:
\* ctor(self) makes a new object each time it is called
LibBase(k) == "LibBase" \o ToString(k)

Live(s) == s \in 1..rtN

\* the proper ancestors of a Runtime: root, root.root, ...
RECURSIVE Ancestors(_)
Ancestors(s) == IF rtRoot[s] = 0 THEN {} ELSE {rtRoot[s]} \cup Ancestors(rtRoot[s])

\* a getVar that looks at the Runtime's own vars and ctors only
GetVarLocal(rv, s, name, defv) ==
    IF rv[s][name] # NoValu THEN [val |-> rv[s][name], vars |-> rv, made |-> 0]
    ELSE IF name \in Ctors
           THEN [val |-> LibBase(rtMade + 1),
                 vars |-> [rv EXCEPT ![s][name] = LibBase(rtMade + 1)], made |-> 1]
    ELSE [val |-> defv, vars |-> rv, made |-> 0]

\* a getVar that constructs the builtin namespace and does not keep it
RECURSIVE GetVarNoMemo(_, _, _, _)
GetVarNoMemo(rv, s, name, defv) ==
    IF rv[s][name] # NoValu THEN [val |-> rv[s][name], vars |-> rv, made |-> 0]
    ELSE IF name \in Ctors THEN [val |-> LibBase(rtMade + 1), vars |-> rv, made |-> 1]
    ELSE IF rtRoot[s] # 0
           THEN LET up == GetVarNoMemo(rv, rtRoot[s], name, NoValu)
                IN  IF up.val # NoValu THEN up
                    ELSE [val |-> defv, vars |-> up.vars, made |-> up.made]
           ELSE [val |-> defv, vars |-> rv, made |-> 0]

\* Runtime.getVar(name, defv): the value returned, the vars afterwards (a
\* builtin namespace is constructed on first use and stored in vars) and
\* the number of constructor calls made
RECURSIVE GetVar(_, _, _, _)
GetVar(rv, s, name, defv) ==
    IF rv[s][name] # NoValu THEN [val |-> rv[s][name], vars |-> rv, made |-> 0]
    ELSE IF name \in Ctors
           THEN [val |-> LibBase(rtMade + 1),
                 vars |-> [rv EXCEPT ![s][name] = LibBase(rtMade + 1)], made |-> 1]
    ELSE IF rtRoot[s] # 0
           THEN LET up == GetVar(rv, rtRoot[s], name, NoValu)
                IN  IF up.val # NoValu THEN up
                    ELSE [val |-> defv, vars |-> up.vars, made |-> up.made]
           ELSE [val |-> defv, vars |-> rv, made |-> 0]

\* an _isRootScope that lets no function scope delegate
IsRootScopeBlockOnly(rv, s, name) == rtRoot[s] # 0 /\ ~rtFunc[s]

\* Runtime._isRootScope(name)
RECURSIVE IsRootScope(_, _, _)
IsRootScope(rv, s, name) ==
    IF rtRoot[s] = 0 THEN FALSE
    ELSE IF ~rtFunc[s] THEN TRUE
    ELSE IF rv[rtRoot[s]][name] # NoValu THEN TRUE
    ELSE IsRootScope(rv, rtRoot[s], name)

\* a setVar without the test for a builtin namespace name or a local name
RECURSIVE SetVarDelegates(_, _, _, _)
SetVarDelegates(rv, s, name, valu) ==
    IF IsRootScope(rv, s, name) THEN SetVarDelegates(rv, rtRoot[s], name, valu)
    ELSE [rv EXCEPT ![s][name] = valu]

\* Runtime.setVar(name, valu): the vars afterwards
RECURSIVE SetVar(_, _, _, _)
SetVar(rv, s, name, valu) ==
    IF name \in Ctors \/ rv[s][name] # NoValu THEN [rv EXCEPT ![s][name] = valu]
    ELSE IF IsRootScope(rv, s, name) THEN SetVar(rv, rtRoot[s], name, valu)
    ELSE [rv EXCEPT ![s][name] = valu]

\* Runtime.popVar(name): the value returned, and the vars afterwards
RECURSIVE PopVar(_, _, _)
PopVar(rv, s, name) ==
    IF IsRootScope(rv, s, name) THEN PopVar(rv, rtRoot[s], name)
    ELSE [val |-> rv[s][name], vars |-> [rv EXCEPT ![s][name] = NoValu]]

NoVars == [n \in Names |-> NoValu]
\* opts.get('vars'): the variables a Runtime is constructed with
OptVars == {NoVars, [NoVars EXCEPT !["x"] = "v1"]}
NoSet == [s |-> 0, name |-> "none", valu |-> "none", fresh |-> FALSE, local |-> FALSE]

ScopeInit ==
    /\ rtN = 1
    /\ rtRoot = [s \in Scopes |-> 0]
    /\ rtFunc = [s \in Scopes |-> FALSE]
    /\ \E varz \in OptVars : rtVars = [s \in Scopes |-> IF s = 1 THEN varz ELSE NoVars]
    /\ rtMade = 0
    /\ lastSet = NoSet

ScopeConst == UNCHANGED <<parVars, mergeVars, dmonVars, rcVars, teeVars, pureVars, bgVars, viewVars, parsVars, streamVars, proxVars, ramVars>>

\* Runtime.__init__ for a new Runtime with the given root and funcscope
NewRuntime(root, func, varz) ==
    /\ rtN < MaxScopes
    /\ rtN' = rtN + 1
    /\ rtRoot' = [rtRoot EXCEPT ![rtN + 1] = root]
    /\ rtFunc' = [rtFunc EXCEPT ![rtN + 1] = func]
    /\ rtVars' = [rtVars EXCEPT ![rtN + 1] = varz]
    /\ lastSet' = NoSet
    /\ UNCHANGED rtMade
    /\ ScopeConst

\* Runtime.getSubRuntime(query, opts): a Runtime whose root is this one
GetSubRuntime(p, varz) == Live(p) /\ NewRuntime(p, FALSE, varz)

\* Runtime.getCmdRuntime(query, opts): a Runtime without a root
GetCmdRuntime(p, varz) == Live(p) /\ NewRuntime(0, FALSE, varz)

\* the Runtime of a function call: a sub-runtime marked funcscope
GetFuncRuntime(p) == Live(p) /\ NewRuntime(p, TRUE, NoVars)

DoSetVar(s, name, valu) ==
    /\ Live(s)
    /\ rtVars' = SetVar(rtVars, s, name, valu)
    /\ lastSet' = [s |-> s, name |-> name, valu |-> valu,
                   fresh |-> \A a \in Ancestors(s) : rtVars[a][name] = NoValu,
                   local |-> rtVars[s][name] # NoValu]
    /\ UNCHANGED <<rtN, rtRoot, rtFunc, rtMade>>
    /\ ScopeConst

DoGetVar(s, name) ==
    /\ Live(s)
    /\ rtMade + GetVar(rtVars, s, name, DefV).made <= MaxMade
    /\ rtVars' = GetVar(rtVars, s, name, DefV).vars
    /\ rtMade' = rtMade + GetVar(rtVars, s, name, DefV).made
    /\ lastSet' = NoSet
    /\ UNCHANGED <<rtN, rtRoot, rtFunc>>
    /\ ScopeConst

DoPopVar(s, name) ==
    /\ Live(s)
    /\ rtVars' = PopVar(rtVars, s, name).vars
    /\ lastSet' = NoSet
    /\ UNCHANGED <<rtN, rtRoot, rtFunc, rtMade>>
    /\ ScopeConst

ScopeNext ==
    \/ (\E p \in Scopes, varz \in OptVars : GetSubRuntime(p, varz))
    \/ (\E p \in Scopes, varz \in OptVars : GetCmdRuntime(p, varz))
    \/ (\E p \in Scopes : GetFuncRuntime(p))
    \/ (\E s \in Scopes, name \in Names, valu \in SetVals : DoSetVar(s, name, valu))
    \/ (\E s \in Scopes, name \in Names : DoGetVar(s, name))
    \/ (\E s \in Scopes, name \in Names : DoPopVar(s, name))

(* ======================================================================= *)
(*        Runtime.runtvars (storm.py 1203-1217, 1260-1261, 1386-1393)      *)
(* ======================================================================= *)
Runts == 1..MaxRunts
\* the names runtvars knows: a query variable, a path builtin, a namespace
RNames == {"x", "node", "lib"}
\* name is not a key of runtvars
NoEntry == "unset"
\* (name, isrunt) pairs an operator's getRuntVars can yield
Opers == {"x", "node"} \X {"true", "false"}
KidSeqs == SeqsUpTo(Opers, MaxKids)

\* Runtime.isRuntVar(name)
IsRuntVar(r, name) == rcRunt[r][name] = "true"

\* dict.update: the entries of other replace those of runt
DictUpdate(runt, other) == [n \in RNames |-> IF other[n] # NoEntry THEN other[n] ELSE runt[n]]

\* a classification step that takes what the operator says, whatever is known
LoadOperOverwrite(runt, oper) == [runt EXCEPT ![oper[1]] = oper[2]]

\* one (name, isrunt) of _loadRuntVars: once runtsafe, always runtsafe
LoadOper(runt, oper) ==
    IF runt[oper[1]] = "true" THEN runt ELSE [runt EXCEPT ![oper[1]] = oper[2]]

\* a constructor that does not take over the classification of its root
InheritNothing(runt, root) == runt

\* inherit runtsafe vars from our root
Inherit(runt, root) == IF root # 0 THEN DictUpdate(runt, rcRunt[root]) ELSE runt

RuntInit ==
    /\ rcN = 0
    /\ rcRoot = 0
    /\ rcVarz = {}
    /\ rcKids = <<>>
    /\ rcRunt = [r \in Runts |-> [n \in RNames |-> NoEntry]]
    /\ rcPc = "idle"
    /\ rcIdx = 0

RuntConst == UNCHANGED <<parVars, mergeVars, dmonVars, scopeVars, teeVars, pureVars, bgVars, viewVars, parsVars, streamVars, proxVars, ramVars>>

\* Runtime(query, snap, opts, user, root): the constructor is entered
RuntBegin(root, varz, kids) ==
    /\ rcPc = "idle" /\ rcN < MaxRunts
    /\ root \in 0..rcN
    /\ rcN' = rcN + 1
    /\ rcRoot' = root
    /\ rcVarz' = varz
    /\ rcKids' = kids
    /\ rcPc' = "decl" /\ rcIdx' = 0
    /\ UNCHANGED rcRunt
    /\ RuntConst

\* self.runtvars = {'node': False, 'path': False}
RuntDecl ==
    /\ rcPc = "decl"
    /\ rcRunt' = [rcRunt EXCEPT ![rcN] = [n \in RNames |-> IF n = "node" THEN "false" ELSE NoEntry]]
    /\ rcPc' = "inherit"
    /\ UNCHANGED <<rcN, rcRoot, rcVarz, rcKids, rcIdx>>
    /\ RuntConst

\* self.runtvars.update(root.runtvars)
RuntInherit ==
    /\ rcPc = "inherit"
    /\ rcRunt' = [rcRunt EXCEPT ![rcN] = Inherit(rcRunt[rcN], rcRoot)]
    /\ rcPc' = "vars"
    /\ UNCHANGED <<rcN, rcRoot, rcVarz, rcKids, rcIdx>>
    /\ RuntConst

\* self.runtvars.update({k: True for k in self.vars.keys()})
RuntVars ==
    /\ rcPc = "vars"
    /\ rcRunt' = [rcRunt EXCEPT ![rcN] = [n \in RNames |-> IF n \in rcVarz THEN "true" ELSE @[n]]]
    /\ rcPc' = "ctors"
    /\ UNCHANGED <<rcN, rcRoot, rcVarz, rcKids, rcIdx>>
    /\ RuntConst

\* self.runtvars.update({k: True for k in self.ctors.keys()})
RuntCtors ==
    /\ rcPc = "ctors"
    /\ rcRunt' = [rcRunt EXCEPT ![rcN] = [n \in RNames |-> IF n \in Ctors THEN "true" ELSE @[n]]]
    /\ rcPc' = "load"
    /\ UNCHANGED <<rcN, rcRoot, rcVarz, rcKids, rcIdx>>
    /\ RuntConst

\* _loadRuntVars: the next operator of query.kids
RuntLoad ==
    /\ rcPc = "load" /\ rcIdx < Len(rcKids)
    /\ rcRunt' = [rcRunt EXCEPT ![rcN] = LoadOper(@, rcKids[rcIdx + 1])]
    /\ rcIdx' = rcIdx + 1
    /\ UNCHANGED <<rcN, rcRoot, rcVarz, rcKids, rcPc>>
    /\ RuntConst

\* _loadRuntVars and the constructor return
RuntDone ==
    /\ rcPc = "load" /\ rcIdx = Len(rcKids)
    /\ rcPc' = "idle"
    /\ rcRoot' = 0 /\ rcVarz' = {} /\ rcKids' = <<>> /\ rcIdx' = 0
    /\ UNCHANGED <<rcN, rcRunt>>
    /\ RuntConst

RuntNext ==
    \/ (\E root \in 0..MaxRunts, varz \in SUBSET {"x", "node"}, kids \in KidSeqs :
            RuntBegin(root, varz, kids))
    \/ RuntDecl
    \/ RuntInherit
    \/ RuntVars
    \/ RuntCtors
    \/ RuntLoad
    \/ RuntDone

\* no Runtime has been constructed
RuntIdle ==
    /\ rcN = 0 /\ rcRoot = 0 /\ rcVarz = {}
    /\ rcKids = <<>> /\ rcRunt = [r \in Runts |-> [n \in RNames |-> NoEntry]]
    /\ rcPc = "idle" /\ rcIdx = 0

(* ======================================================================= *)
(*                       TeeCmd (storm.py 2891-2948)                       *)
(* ======================================================================= *)
\* an item yielded by the sub-query of runts[src] executed on input item of
\* (of = 0: executed without input); src = 0 is the input item itself
TeeItem(src, of, n) == [src |-> src, of |-> of, n |-> n]

\* where execStormCmd goes on when the last sub-query is through with an
\* item, if the inbound item were never re-emitted
AfterSubsNoJoin(join) == "next"

\* where execStormCmd goes on when the last sub-query is through with an item
AfterSubs(join) == IF join THEN "join" ELSE "next"

\* a command that runs its sub-queries on an empty input whether or not its
\* arguments are runt-safe
NoInputRunAlways(item, runtsafe) == item = 0

\* if item is None and self.runtsafe
NoInputRun(item, runtsafe) == item = 0 /\ runtsafe

TeeInit ==
    /\ teeJoin \in BOOLEAN /\ teeSafe \in BOOLEAN
    /\ teeK \in 0..MaxTeeQ /\ teeM \in 0..MaxTeeIn
    /\ teePc = "start" /\ teeRunts = 0 /\ teeRead = 0 /\ teeItem = 0
    /\ teeCur = 0 /\ teeSubN = 0 /\ teeOut = <<>> /\ teeExec = <<>>

TeeConst == UNCHANGED <<teeJoin, teeSafe, teeK, teeM, parVars, mergeVars, dmonVars, scopeVars, rcVars, pureVars, bgVars, viewVars, parsVars, streamVars, proxVars, ramVars>>

\* if not self.opts.query: raise StormRuntimeError
TeeStart ==
    /\ teePc = "start"
    /\ teePc' = IF teeK = 0 THEN "raised" ELSE "open"
    /\ UNCHANGED <<teeRunts, teeRead, teeItem, teeCur, teeSubN, teeOut, teeExec>>
    /\ TeeConst

\* for text in self.opts.query: runts.append(runt.getSubRuntime(query))
TeeOpen ==
    /\ teePc = "open"
    /\ teeRunts' = teeRunts + 1
    /\ teePc' = IF teeRunts + 1 = teeK THEN "next" ELSE "open"
    /\ UNCHANGED <<teeRead, teeItem, teeCur, teeSubN, teeOut, teeExec>>
    /\ TeeConst

\* async for item in genr: the next item, or the end of the input
TeePull ==
    /\ teePc = "next"
    /\ IF teeRead < teeM
         THEN /\ teeRead' = teeRead + 1 /\ teeItem' = teeRead + 1
              /\ teePc' = "sub" /\ teeCur' = 1
         ELSE /\ UNCHANGED <<teeRead, teeItem>>
              /\ IF NoInputRun(teeItem, teeSafe)
                   THEN teePc' = "empty" /\ teeCur' = 1
                   ELSE teePc' = "done" /\ teeCur' = 0
    /\ teeSubN' = 0
    /\ UNCHANGED <<teeRunts, teeOut, teeExec>>
    /\ TeeConst

\* async for subitem in subr.execute(...): yield subitem
TeeSubYield ==
    /\ teePc \in {"sub", "empty"} /\ teeSubN < MaxSubOut
    /\ teeSubN' = teeSubN + 1
    /\ teeOut' = Append(teeOut, TeeItem(teeCur, teeItem, teeSubN + 1))
    /\ UNCHANGED <<teePc, teeRunts, teeRead, teeItem, teeCur, teeExec>>
    /\ TeeConst

\* the executing sub-query ends its stream: on to the next sub-runtime, or
\* out of the for loop
TeeSubEnd ==
    /\ teePc \in {"sub", "empty"}
    /\ teeExec' = Append(teeExec, <<teeCur, teeItem>>)
    /\ teeSubN' = 0
    /\ IF teeCur < teeRunts
         THEN teeCur' = teeCur + 1 /\ UNCHANGED teePc
         ELSE /\ teeCur' = 0
              /\ teePc' = IF teePc = "sub" THEN AfterSubs(teeJoin) ELSE "done"
    /\ UNCHANGED <<teeRunts, teeRead, teeItem, teeOut>>
    /\ TeeConst

\* the executing sub-query raises: the exception leaves execStormCmd
TeeSubErr ==
    /\ teePc \in {"sub", "empty"}
    /\ teePc' = "raised"
    /\ UNCHANGED <<teeRunts, teeRead, teeItem, teeCur, teeSubN, teeOut, teeExec>>
    /\ TeeConst

\* if self.opts.join: yield item
TeeYieldItem ==
    /\ teePc = "join"
    /\ teeOut' = Append(teeOut, TeeItem(0, teeItem, 0))
    /\ teePc' = "next"
    /\ UNCHANGED <<teeRunts, teeRead, teeItem, teeCur, teeSubN, teeExec>>
    /\ TeeConst

TeeNext ==
    \/ TeeStart
    \/ TeeOpen
    \/ TeePull
    \/ TeeSubYield
    \/ TeeSubEnd
    \/ TeeSubErr
    \/ TeeYieldItem

\* no TeeCmd is executing
TeeIdle ==
    /\ teeJoin = FALSE /\ teeSafe = FALSE /\ teeK = 0 /\ teeM = 0
    /\ teePc = "done" /\ teeRunts = 0 /\ teeRead = 0 /\ teeItem = 0
    /\ teeCur = 0 /\ teeSubN = 0 /\ teeOut = <<>> /\ teeExec = <<>>

(* ======================================================================= *)
(*                      PureCmd (storm.py 1877-1932)                       *)
(* ======================================================================= *)
\* Runtime.allowed(perm): asroot bypasses the check of the user
RuntAllowed(runtroot, userperm) == runtroot \/ userperm

\* a dispatch that lets every command elevate
PureDeniedNever(cmdroot, allowed) == FALSE

\* if self.asroot and not asroot: raise AuthDeny
PureDenied(cmdroot, allowed) == cmdroot /\ ~allowed

\* getCmdRuntime sets runt.asroot = self.asroot, then subr.asroot = asroot
SubrAsroot(runtroot, allowed) == allowed

PureInit ==
    /\ pcAsroot \in BOOLEAN /\ pcRuntRoot \in BOOLEAN /\ pcUserPerm \in BOOLEAN
    /\ pcM \in 0..MaxPureIn
    /\ pcPc = "start" /\ pcSubr = FALSE /\ pcSubRoot = FALSE /\ pcBody = FALSE
    /\ pcRead = 0 /\ pcOut = 0 /\ pcErr = "none"

PureConst == UNCHANGED <<pcAsroot, pcRuntRoot, pcUserPerm, pcM, parVars, mergeVars, dmonVars, scopeVars, rcVars, teeVars, bgVars, viewVars, parsVars, streamVars, proxVars, ramVars>>

\* the permission check at the head of execStormCmd
PureCheck ==
    /\ pcPc = "start"
    /\ IF PureDenied(pcAsroot, RuntAllowed(pcRuntRoot, pcUserPerm))
         THEN pcPc' = "raised" /\ pcErr' = "AuthDeny"
         ELSE pcPc' = "open" /\ pcErr' = pcErr
    /\ UNCHANGED <<pcSubr, pcSubRoot, pcBody, pcRead, pcOut>>
    /\ PureConst

\* with runt.getCmdRuntime(query, opts=opts) as subr: subr.asroot = asroot
PureOpen ==
    /\ pcPc = "open"
    /\ pcSubr' = TRUE
    /\ pcSubRoot' = SubrAsroot(pcRuntRoot, RuntAllowed(pcRuntRoot, pcUserPerm))
    /\ pcPc' = "exec"
    /\ UNCHANGED <<pcBody, pcRead, pcOut, pcErr>>
    /\ PureConst

\* the body pulls an input item through genx
PurePull ==
    /\ pcPc = "exec" /\ pcRead < pcM
    /\ pcBody' = TRUE
    /\ pcRead' = pcRead + 1
    /\ UNCHANGED <<pcPc, pcSubr, pcSubRoot, pcOut, pcErr>>
    /\ PureConst

\* async for node, path in subr.execute(genr=genx()): yield node, path
PureYield ==
    /\ pcPc = "exec" /\ pcOut < MaxPureOut
    /\ pcBody' = TRUE
    /\ pcOut' = pcOut + 1
    /\ UNCHANGED <<pcPc, pcSubr, pcSubRoot, pcRead, pcErr>>
    /\ PureConst

\* the body ends its stream
PureEnd ==
    /\ pcPc = "exec"
    /\ pcBody' = TRUE
    /\ pcPc' = "done"
    /\ UNCHANGED <<pcSubr, pcSubRoot, pcRead, pcOut, pcErr>>
    /\ PureConst

\* the body raises
PureErr ==
    /\ pcPc = "exec"
    /\ pcBody' = TRUE
    /\ pcPc' = "raised" /\ pcErr' = "Exception"
    /\ UNCHANGED <<pcSubr, pcSubRoot, pcRead, pcOut>>
    /\ PureConst

PureNext ==
    \/ PureCheck
    \/ PureOpen
    \/ PurePull
    \/ PureYield
    \/ PureEnd
    \/ PureErr

\* no PureCmd is executing
PureIdle ==
    /\ pcAsroot = FALSE /\ pcRuntRoot = FALSE /\ pcUserPerm = FALSE /\ pcM = 0
    /\ pcPc = "done" /\ pcSubr = FALSE /\ pcSubRoot = FALSE /\ pcBody = FALSE
    /\ pcRead = 0 /\ pcOut = 0 /\ pcErr = "none"

(* ======================================================================= *)
(*                    BackgroundCmd (storm.py 2752-2802)                   *)
(* ======================================================================= *)
\* a command that lets a query that is not runtsafe through
BgRefusedNever(safe) == FALSE

\* if not self.runtsafe: raise StormRuntimeError
BgRefused(safe) == ~safe

\* an execStormCmd that builds the coroutine and never hands it to schedCoro
SchedCoroDropped(n) == n + 0

\* runt.snap.core.schedCoro(coro)
SchedCoro(n) == n + 1

BgInit ==
    /\ bgSafe \in BOOLEAN /\ bgRaises \in BOOLEAN /\ bgValid \in BOOLEAN
    /\ bgM \in 0..MaxBgIn
    /\ bgPc = "start" /\ bgRead = 0 /\ bgOut = <<>>
    /\ bgTasks = 0 /\ bgTask = "none" /\ bgErr = "none"

BgConst == UNCHANGED <<bgSafe, bgM, bgRaises, bgValid, parVars, mergeVars, dmonVars, scopeVars, rcVars, teeVars, pureVars, viewVars, parsVars, streamVars, proxVars, ramVars>>

\* the consumer asks for the first item: the runtsafe check
BgStart ==
    /\ bgPc = "start"
    /\ IF BgRefused(bgSafe)
         THEN bgPc' = "raised" /\ bgErr' = "StormRuntimeError"
         ELSE bgPc' = "fwd" /\ bgErr' = bgErr
    /\ UNCHANGED <<bgRead, bgOut, bgTasks, bgTask>>
    /\ BgConst

\* async for item in genr: yield item
BgForward ==
    /\ bgPc = "fwd" /\ bgRead < bgM
    /\ bgRead' = bgRead + 1
    /\ bgOut' = Append(bgOut, bgRead + 1)
    /\ bgPc' = "yielded"
    /\ UNCHANGED <<bgTasks, bgTask, bgErr>>
    /\ BgConst

\* the consumer asks for the next item
BgResume ==
    /\ bgPc = "yielded"
    /\ bgPc' = "fwd"
    /\ UNCHANGED <<bgRead, bgOut, bgTasks, bgTask, bgErr>>
    /\ BgConst

\* the consumer closes the generator instead of asking for the next item
BgClose ==
    /\ bgPc = "yielded"
    /\ bgPc' = "closed"
    /\ UNCHANGED <<bgRead, bgOut, bgTasks, bgTask, bgErr>>
    /\ BgConst

\* the input stream raises
BgInputErr ==
    /\ bgPc = "fwd" /\ bgRead = bgM /\ bgRaises
    /\ bgPc' = "raised" /\ bgErr' = "Exception"
    /\ UNCHANGED <<bgRead, bgOut, bgTasks, bgTask>>
    /\ BgConst

\* the input stream ends: toprim(self.runt.vars), opts, getStormQuery
BgInputEnd ==
    /\ bgPc = "fwd" /\ bgRead = bgM /\ ~bgRaises
    /\ bgPc' = "sched"
    /\ UNCHANGED <<bgRead, bgOut, bgTasks, bgTask, bgErr>>
    /\ BgConst

\* query.validate(runt); coro = self.execStormTask(query, opts); schedCoro(coro)
BgSched ==
    /\ bgPc = "sched"
    /\ IF bgValid
         THEN /\ bgTasks' = SchedCoro(bgTasks)
              /\ bgTask' = IF SchedCoro(bgTasks) > bgTasks THEN "running" ELSE bgTask
              /\ bgPc' = "done" /\ bgErr' = bgErr
         ELSE /\ bgPc' = "raised" /\ bgErr' = "BadSyntax"
              /\ UNCHANGED <<bgTasks, bgTask>>
    /\ UNCHANGED <<bgRead, bgOut>>
    /\ BgConst

\* execStormTask runs to its end
BgTaskEnd ==
    /\ bgTask = "running"
    /\ bgTask' = "ended"
    /\ UNCHANGED <<bgPc, bgRead, bgOut, bgTasks, bgErr>>
    /\ BgConst

BgNext ==
    \/ BgStart
    \/ BgForward
    \/ BgResume
    \/ BgClose
    \/ BgInputErr
    \/ BgInputEnd
    \/ BgSched
    \/ BgTaskEnd

\* no BackgroundCmd is executing
BgIdle ==
    /\ bgSafe = FALSE /\ bgM = 0 /\ bgRaises = FALSE /\ bgValid = FALSE
    /\ bgPc = "done" /\ bgRead = 0 /\ bgOut = <<>>
    /\ bgTasks = 0 /\ bgTask = "none" /\ bgErr = "none"

(* ======================================================================= *)
(*                    ViewExecCmd (storm.py 2700-2750)                     *)
(* ======================================================================= *)
\* an item of the output stream: an input item, by its place in the input,
\* or an item that the nested query produced
VeInput(i) == [src |-> "input", i |-> i]
VeNestedItem(of, n) == [src |-> "nested", i |-> of, n |-> n]

\* subr.execute(): the nested query gets no genr, and opts names no nodes
NestedInput(item) == <<>>

\* a loop over the nested query that yields what it produces
NestedForwarded(out, it) == Append(out, it)

\* async for item in subr.execute(): await asyncio.sleep(0)
NestedDiscarded(out, it) == out

\* a denial that is swallowed: the command goes on to yield the item
DenySkipped(item) == IF item # 0 THEN "yield" ELSE "done"

\* self.user.confirm(('view', 'read'), gateiden=viewiden) raises AuthDeny
\* out of getSubRuntime and out of execStormCmd
DenyRaised(item) == "raised"

VeInit ==
    /\ veM \in 0..MaxVeIn /\ veSafe \in BOOLEAN /\ veViewOk \in BOOLEAN /\ vePerm \in BOOLEAN
    /\ vePc = "next" /\ veRead = 0 /\ veItem = 0 /\ veRuns = <<>> /\ veEnded = 0
    /\ veNested = 0 /\ veOut = <<>> /\ veErr = "none"

VeConst == UNCHANGED <<veM, veSafe, veViewOk, vePerm, parVars, mergeVars, dmonVars, scopeVars, rcVars, teeVars, pureVars, bgVars, parsVars, streamVars, proxVars, ramVars>>

\* async for node, path in genr / if node is None and self.runtsafe
VePull ==
    /\ vePc = "next"
    /\ IF veRead < veM
         THEN veRead' = veRead + 1 /\ veItem' = veRead + 1 /\ vePc' = "open"
         ELSE /\ UNCHANGED <<veRead, veItem>>
              /\ vePc' = IF veItem = 0 /\ veSafe THEN "open" ELSE "done"
    /\ UNCHANGED <<veRuns, veEnded, veNested, veOut, veErr>>
    /\ VeConst

\* async with runt.getSubRuntime(query, opts=opts) as subr: the view is
\* looked up, the permission confirmed, the Runtime made and executed
VeOpen ==
    /\ vePc = "open"
    /\ IF ~veViewOk
         THEN vePc' = "raised" /\ veErr' = "NoSuchView" /\ UNCHANGED veRuns
         ELSE IF ~vePerm
           THEN vePc' = DenyRaised(veItem) /\ veErr' = "AuthDeny" /\ UNCHANGED veRuns
           ELSE /\ vePc' = "exec" /\ veErr' = veErr
                /\ veRuns' = Append(veRuns, [of |-> veItem, inputs |-> NestedInput(veItem),
                                             vars |-> veItem # 0])
    /\ veNested' = 0
    /\ UNCHANGED <<veRead, veItem, veEnded, veOut>>
    /\ VeConst

\* the nested query produces an item
VeNestedStep ==
    /\ vePc = "exec" /\ veNested < MaxNested
    /\ veNested' = veNested + 1
    /\ veOut' = NestedDiscarded(veOut, VeNestedItem(veItem, veNested + 1))
    /\ UNCHANGED <<vePc, veRead, veItem, veRuns, veEnded, veErr>>
    /\ VeConst

\* the nested query ends
VeNestedEnd ==
    /\ vePc = "exec"
    /\ veEnded' = veEnded + 1
    /\ vePc' = IF veItem # 0 THEN "yield" ELSE "done"
    /\ UNCHANGED <<veRead, veItem, veRuns, veNested, veOut, veErr>>
    /\ VeConst

\* the nested query raises
VeNestedErr ==
    /\ vePc = "exec"
    /\ vePc' = "raised" /\ veErr' = "Exception"
    /\ UNCHANGED <<veRead, veItem, veRuns, veEnded, veNested, veOut>>
    /\ VeConst

\* yield node, path
VeYield ==
    /\ vePc = "yield"
    /\ veOut' = Append(veOut, VeInput(veItem))
    /\ vePc' = "next"
    /\ UNCHANGED <<veRead, veItem, veRuns, veEnded, veNested, veErr>>
    /\ VeConst

VeNext ==
    \/ VePull
    \/ VeOpen
    \/ VeNestedStep
    \/ VeNestedEnd
    \/ VeNestedErr
    \/ VeYield

\* no ViewExecCmd is executing
VeIdle ==
    /\ veM = 0 /\ veSafe = FALSE /\ veViewOk = FALSE /\ vePerm = FALSE
    /\ vePc = "done" /\ veRead = 0 /\ veItem = 0 /\ veRuns = <<>> /\ veEnded = 0
    /\ veNested = 0 /\ veOut = <<>> /\ veErr = "none"

(* ======================================================================= *)
(*              Parser and Cmd.setArgv (storm.py 1445-1830)                *)
(* ======================================================================= *)
\* a value: an item of argv, the value of an option, an element of a list
StrV(s) == [k |-> "str", s |-> s, n |-> 0, l |-> <<>>]
IntV(n) == [k |-> "int", s |-> "", n |-> n, l |-> <<>>]
BoolV(b) == [k |-> "bool", s |-> IF b THEN "True" ELSE "False", n |-> 0, l |-> <<>>]
NoneV == [k |-> "none", s |-> "", n |-> 0, l |-> <<>>]
ListV(l) == [k |-> "list", s |-> "", n |-> 0, l |-> l]
\* a key that the opts dict does not hold
Absent == [k |-> "absent", s |-> "", n |-> 0, l |-> <<>>]

\* the opts of add_argument(name, **opts): action and nargs with their
\* defaults ('store', None), the dest of _get_dest, 'default' in opts
ArgDef(name, dest, pos) ==
    [name |-> name, dest |-> dest, pos |-> pos, action |-> "store", nargs |-> "one",
     n |-> 0, type |-> "none", hasdef |-> FALSE, default |-> NoneV, required |-> FALSE]

\* Parser.__init__ registers --help first
HelpArg == [ArgDef("--help", "help", FALSE) EXCEPT !.action = "store_true", !.hasdef = TRUE, !.default = BoolV(FALSE)]
DegreesArg == [ArgDef("--degrees", "degrees", FALSE) EXCEPT !.type = "int", !.hasdef = TRUE, !.default = IntV(1)]
NameArg == [ArgDef("--name", "name", FALSE) EXCEPT !.required = TRUE]
QueryArg == ArgDef("query", "query", TRUE)
RestArg == [ArgDef("rest", "rest", TRUE) EXCEPT !.nargs = "+"]
FlagArg == [ArgDef("--off", "off", FALSE) EXCEPT !.action = "store_false", !.hasdef = TRUE, !.default = BoolV(TRUE)]
TagArg == [ArgDef("--tag", "tag", FALSE) EXCEPT !.action = "append"]
PairArg == [ArgDef("--pair", "pair", FALSE) EXCEPT !.nargs = "n", !.n = 2, !.type = "int"]
OptArg == [ArgDef("opt", "opt", TRUE) EXCEPT !.nargs = "?"]
ManyArg == [ArgDef("many", "many", TRUE) EXCEPT !.nargs = "*"]

\* the parsers of the model, each the allargs list of a Parser
ParsDegrees == <<HelpArg, DegreesArg, QueryArg>>
ParsRequired == <<HelpArg, DegreesArg, NameArg, QueryArg, RestArg>>
ParsMixed == <<HelpArg, FlagArg, TagArg, PairArg, OptArg, ManyArg>>
Parsers == {ParsDegrees, ParsRequired, ParsMixed}

Dests == {"help", "degrees", "name", "query", "rest", "off", "tag", "pair", "opt", "many"}

\* the items an argv is made of: the names of the parser's options, strings
\* that are and are not integers, and an item that is not a string
ValueToks == {StrV("3"), StrV("hello"), IntV(7)}
Toks(pars) == ValueToks \cup {StrV(pars[i].name) : i \in {j \in 1..Len(pars) : ~pars[j].pos}}
Argvs(pars) == UNION {[1..len -> Toks(pars)] : len \in 0..MaxArgv}

\* self.posargs, self.reqopts
PosArgs(pars) == SelectSeq(pars, LAMBDA a : a.pos)
ReqOpts(pars) == SelectSeq(pars, LAMBDA a : a.required)

\* _is_opt: a str that is a key of self.optargs
IsOpt(pars, valu) ==
    valu.k = "str" /\ \E i \in 1..Len(pars) : ~pars[i].pos /\ pars[i].name = valu.s

\* self.optargs.get(item)
OptDef(pars, item) == pars[CHOOSE i \in 1..Len(pars) : ~pars[i].pos /\ pars[i].name = item]

\* s_datamodel.Model().type(argtype).norm(valu)[0] for the type 'int'
IntOf == [s \in {"3"} |-> 3]
Norm(argtype, valu) ==
    IF valu.k = "int" THEN [ok |-> TRUE, v |-> valu]
    ELSE IF valu.k = "str" /\ valu.s \in DOMAIN IntOf
         THEN [ok |-> TRUE, v |-> IntV(IntOf[valu.s])]
         ELSE [ok |-> FALSE, v |-> valu]

\* if argtype is not None: try: valu = ...norm(valu)[0]
Typed(argtype, valu) == IF argtype = "none" THEN [ok |-> TRUE, v |-> valu] ELSE Norm(argtype, valu)

NoMesg == <<>>

\* a value that its type rejects, were the exception of norm() not caught
TypeRejectedRaises(argtype, valu) == [mesg |-> NoMesg, exc |-> "BadTypeValu"]

\* except Exception: return self.help(mesg=f'Invalid value for type ...')
TypeRejected(argtype, valu) ==
    [mesg |-> <<"Invalid value for type", argtype, valu.s>>, exc |-> "none"]

\* what _get_store returns: False after help(mesg), True with opts[dest] set
StoreFail(todo, opts, mesg) == [ok |-> FALSE, todo |-> todo, opts |-> opts, mesg |-> mesg, exc |-> "none"]
StoreBad(todo, opts, argtype, valu) ==
    [ok |-> FALSE, todo |-> todo, opts |-> opts,
     mesg |-> TypeRejected(argtype, valu).mesg, exc |-> TypeRejected(argtype, valu).exc]
StoreOk(todo, opts) == [ok |-> TRUE, todo |-> todo, opts |-> opts, mesg |-> NoMesg, exc |-> "none"]

\* nargs in ('*', '+'): while todo and not self._is_opt(todo[0])
RECURSIVE TakeVals(_, _, _, _)
TakeVals(pars, argtype, todo, vals) ==
    IF todo = <<>> \/ IsOpt(pars, Head(todo))
    THEN [ok |-> TRUE, todo |-> todo, vals |-> vals, bad |-> NoneV]
    ELSE LET r == Typed(argtype, Head(todo)) IN
         IF r.ok THEN TakeVals(pars, argtype, Tail(todo), Append(vals, r.v))
         ELSE [ok |-> FALSE, todo |-> Tail(todo), vals |-> vals, bad |-> Head(todo)]

\* for _ in range(nargs)
RECURSIVE TakeN(_, _, _, _, _)
TakeN(pars, argtype, cnt, todo, vals) ==
    IF cnt = 0 THEN [ok |-> TRUE, few |-> FALSE, todo |-> todo, vals |-> vals, bad |-> NoneV]
    ELSE IF todo = <<>> \/ IsOpt(pars, Head(todo))
    THEN [ok |-> FALSE, few |-> TRUE, todo |-> todo, vals |-> vals, bad |-> NoneV]
    ELSE LET r == Typed(argtype, Head(todo)) IN
         IF r.ok THEN TakeN(pars, argtype, cnt - 1, Tail(todo), Append(vals, r.v))
         ELSE [ok |-> FALSE, few |-> FALSE, todo |-> Tail(todo), vals |-> vals, bad |-> Head(todo)]

\* Parser._get_store(name, argdef, todo, opts)
GetStore(pars, name, argdef, todo, opts) ==
    LET dest == argdef.dest
        argtype == argdef.type
    IN  CASE argdef.nargs = "one" ->
               IF todo = <<>> \/ IsOpt(pars, Head(todo))
               THEN StoreFail(todo, opts,
                        IF ~argdef.pos THEN <<"An argument is required for", name>>
                                       ELSE <<"The argument is required", name>>)
               ELSE LET r == Typed(argtype, Head(todo)) IN
                    IF r.ok THEN StoreOk(Tail(todo), [opts EXCEPT ![dest] = r.v])
                    ELSE StoreBad(Tail(todo), opts, argtype, Head(todo))
          [] argdef.nargs = "?" ->
               LET dflt == [opts EXCEPT ![dest] = IF @ = Absent THEN NoneV ELSE @] IN
               IF todo # <<>> /\ ~IsOpt(pars, Head(todo))
               THEN LET r == Typed(argtype, Head(todo)) IN
                    IF r.ok THEN StoreOk(Tail(todo), [dflt EXCEPT ![dest] = r.v])
                    ELSE StoreBad(Tail(todo), dflt, argtype, Head(todo))
               ELSE StoreOk(todo, dflt)
          [] argdef.nargs \in {"*", "+"} ->
               LET t == TakeVals(pars, argtype, todo, <<>>) IN
               IF ~t.ok THEN StoreBad(t.todo, opts, argtype, t.bad)
               ELSE IF argdef.nargs = "+" /\ t.vals = <<>>
               THEN StoreFail(t.todo, opts, <<"At least one argument is required for {name}.">>)
               ELSE StoreOk(t.todo, [opts EXCEPT ![dest] = ListV(t.vals)])
          [] OTHER ->
               LET t == TakeN(pars, argtype, argdef.n, todo, <<>>) IN
               IF t.ok THEN StoreOk(t.todo, [opts EXCEPT ![dest] = ListV(t.vals)])
               ELSE IF t.few THEN StoreFail(t.todo, opts, <<"arguments are required for", name>>)
               ELSE StoreBad(t.todo, opts, argtype, t.bad)

\* the loop over allargs that leaves every option without its default
DefaultsSkipped(pars, opts) == opts

\* for _, argdef in self.allargs: opts.setdefault(argdef['dest'], argdef['default'])
Defaults(pars, opts) ==
    [d \in Dests |->
        LET defs == {i \in 1..Len(pars) : pars[i].hasdef /\ pars[i].dest = d} IN
        IF opts[d] = Absent /\ defs # {}
        THEN pars[CHOOSE i \in defs : \A j \in defs : i <= j].default
        ELSE opts[d]]

\* Parser.help(mesg): the lines it hands to _printf for a parser of a Cmd
\* (prog and descr given)
Help(pars, mesg) ==
    LET options == SelectSeq(pars, LAMBDA a : ~a.pos)
        posargs == PosArgs(pars)
    IN  <<<<"">>, <<"descr">>, <<"">>, <<"Usage">>, <<"">>, <<"Options:">>, <<"">>>>
        \o [i \in 1..Len(options) |-> <<"optarg", options[i].name>>]
        \o (IF posargs # <<>>
            THEN <<<<"">>, <<"Arguments:">>, <<"">>>>
                 \o [i \in 1..Len(posargs) |-> <<"posarg", posargs[i].name>>]
            ELSE <<>>)
        \o (IF mesg # NoMesg THEN <<<<"">>, <<"ERROR">> \o mesg>> ELSE <<>>)

\* the Namespace parse_args returns, or None
NoRetn == [ok |-> FALSE, ns |-> [d \in Dests |-> Absent]]
Retn(opts) == [ok |-> TRUE, ns |-> opts]

\* the outcomes of parse_args: a return after help(), an exception, a result
Helped(pars, mesg) == [retn |-> NoRetn, mesgs |-> Help(pars, mesg), exited |-> TRUE, exc |-> "none"]
Raised(exc) == [retn |-> NoRetn, mesgs |-> <<>>, exited |-> FALSE, exc |-> exc]
Stopped(pars, r) == IF r.exc # "none" THEN Raised(r.exc) ELSE Helped(pars, r.mesg)
Parsed(opts) == [retn |-> Retn(opts), mesgs |-> <<>>, exited |-> FALSE, exc |-> "none"]

NoOpts == [d \in Dests |-> Absent]

PsInit ==
    /\ psPars \in Parsers
    /\ psPc = "new" /\ psCaller = "none" /\ psArgv = <<>>
    /\ psTodo = <<>> /\ psPosargs = <<>> /\ psOpts = NoOpts /\ psIdx = 0
    /\ psRetn = NoRetn /\ psMesgs = <<>> /\ psExited = FALSE
    /\ psPrinted = <<>> /\ psRet = FALSE /\ psErr = "none"

PsConst == UNCHANGED <<psPars, parVars, mergeVars, dmonVars, scopeVars, rcVars, teeVars, pureVars, bgVars, viewVars, streamVars, proxVars, ramVars>>

\* parse_args is left with the outcome out: to its caller, or to setArgv,
\* which an exception leaves as well
PsLeave(out) ==
    /\ psRetn' = out.retn /\ psMesgs' = psMesgs \o out.mesgs /\ psExited' = out.exited
    /\ psErr' = out.exc
    /\ psPc' = IF out.exc # "none" THEN "raised"
               ELSE IF psCaller = "setArgv" THEN "print" ELSE "parsed"

PsStay == UNCHANGED <<psRetn, psMesgs, psExited, psErr>>

\* Parser.parse_args(argv) is called on the parser itself:
\* posargs = [], todo = collections.deque(argv), opts = {}
PsParseArgs ==
    /\ psPc = "new"
    /\ \E argv \in Argvs(psPars) : psArgv' = argv /\ psTodo' = argv
    /\ psCaller' = "parse_args" /\ psPc' = "opts"
    /\ psPosargs' = <<>> /\ psOpts' = NoOpts
    /\ UNCHANGED <<psIdx, psPrinted, psRet>>
    /\ PsStay /\ PsConst

\* Cmd.setArgv(argv) on a command whose parser has parsed nothing yet:
\* self.opts = self.pars.parse_args(self.argv)
PsSetArgv ==
    /\ psPc = "new"
    /\ \E argv \in Argvs(psPars) : psArgv' = argv /\ psTodo' = argv
    /\ psCaller' = "setArgv" /\ psPc' = "opts"
    /\ psPosargs' = <<>> /\ psOpts' = NoOpts
    /\ UNCHANGED <<psIdx, psPrinted, psRet>>
    /\ PsStay /\ PsConst

\* one pass of the while todo loop: an option is stored as it is met, every
\* other item is collected in posargs; after the loop the check for --help
PsOptStep ==
    /\ psPc = "opts"
    /\ IF psTodo = <<>>
         THEN IF psOpts["help"] = BoolV(TRUE)
                THEN PsLeave(Helped(psPars, NoMesg)) /\ UNCHANGED <<psTodo, psPosargs, psOpts, psIdx>>
                ELSE /\ psTodo' = psPosargs /\ psIdx' = 1 /\ psPc' = "pos"
                     /\ UNCHANGED <<psPosargs, psOpts>> /\ PsStay
         ELSE LET item == Head(psTodo)
                  rest == Tail(psTodo)
              IN  IF item.k # "str" \/ ~IsOpt(psPars, item)
                    THEN /\ psPosargs' = Append(psPosargs, item) /\ psTodo' = rest
                         /\ UNCHANGED <<psPc, psOpts, psIdx>> /\ PsStay
                    ELSE LET argdef == OptDef(psPars, item.s)
                             dest == argdef.dest
                             fake == argdef.action = "append"
                             r == GetStore(psPars, item.s, argdef, rest, IF fake THEN NoOpts ELSE psOpts)
                         IN  IF argdef.action \in {"store_true", "store_false"}
                               THEN /\ psOpts' = [psOpts EXCEPT ![dest] = BoolV(argdef.action = "store_true")]
                                    /\ psTodo' = rest
                                    /\ UNCHANGED <<psPc, psPosargs, psIdx>> /\ PsStay
                               ELSE IF ~r.ok
                               THEN PsLeave(Stopped(psPars, r)) /\ UNCHANGED <<psTodo, psPosargs, psOpts, psIdx>>
                               ELSE /\ psOpts' = IF fake
                                                 THEN [psOpts EXCEPT ![dest] =
                                                         ListV(Append(IF @ = Absent THEN <<>> ELSE @.l, r.opts[dest]))]
                                                 ELSE r.opts
                                    /\ psTodo' = r.todo
                                    /\ UNCHANGED <<psPc, psPosargs, psIdx>> /\ PsStay
    /\ UNCHANGED <<psArgv, psCaller, psPrinted, psRet>>
    /\ PsConst

\* for name, argdef in self.posargs: if not self._get_store(...): return
PsPosStep ==
    /\ psPc = "pos"
    /\ IF psIdx > Len(PosArgs(psPars))
         THEN psPc' = "finish" /\ UNCHANGED <<psTodo, psOpts, psIdx>> /\ PsStay
         ELSE LET argdef == PosArgs(psPars)[psIdx]
                  r == GetStore(psPars, argdef.name, argdef, psTodo, psOpts)
              IN  IF ~r.ok
                    THEN PsLeave(Stopped(psPars, r)) /\ UNCHANGED <<psTodo, psOpts, psIdx>>
                    ELSE /\ psTodo' = r.todo /\ psOpts' = r.opts /\ psIdx' = psIdx + 1
                         /\ UNCHANGED psPc /\ PsStay
    /\ UNCHANGED <<psArgv, psCaller, psPosargs, psPrinted, psRet>>
    /\ PsConst

\* the end of parse_args: items left over, the defaults, the required
\* options, the Namespace
PsFinish ==
    /\ psPc = "finish"
    /\ LET opts == Defaults(psPars, psOpts)
           reqs == ReqOpts(psPars)
           miss == {i \in 1..Len(reqs) : opts[reqs[i].dest] = Absent}
       IN  IF psTodo # <<>>
             THEN PsLeave(Helped(psPars, <<"Expected positional arguments">>)) /\ UNCHANGED psOpts
             ELSE IF miss # {}
             THEN /\ PsLeave(Helped(psPars, <<"Missing a required option",
                                              reqs[CHOOSE i \in miss : \A j \in miss : i <= j].name>>))
                  /\ psOpts' = opts
             ELSE PsLeave(Parsed(opts)) /\ psOpts' = opts
    /\ UNCHANGED <<psArgv, psCaller, psTodo, psPosargs, psIdx, psPrinted, psRet>>
    /\ PsConst

\* setArgv after parse_args: for line in self.pars.mesgs: printf(line);
\* return not self.pars.exited
PsPrint ==
    /\ psPc = "print"
    /\ psPrinted' = psPrinted \o psMesgs
    /\ psRet' = ~psExited
    /\ psPc' = "set"
    /\ UNCHANGED <<psArgv, psCaller, psTodo, psPosargs, psOpts, psIdx>>
    /\ PsStay /\ PsConst

PsNext ==
    \/ PsParseArgs
    \/ PsSetArgv
    \/ PsOptStep
    \/ PsPosStep
    \/ PsFinish
    \/ PsPrint

\* no Parser exists
PsIdle ==
    /\ psPars = <<>> /\ psPc = "idle" /\ psCaller = "none" /\ psArgv = <<>>
    /\ psTodo = <<>> /\ psPosargs = <<>> /\ psOpts = NoOpts /\ psIdx = 0
    /\ psRetn = NoRetn /\ psMesgs = <<>> /\ psExited = FALSE
    /\ psPrinted = <<>> /\ psRet = FALSE /\ psErr = "none"

(* ======================================================================= *)
(*          LimitCmd and CountCmd (storm.py 2154-2181, 2517-2538)          *)
(* ======================================================================= *)
StCmds == {"limit", "count"}
\* the streams genr can produce
StInputs == UNION {[1..len -> Nodes] : len \in 0..MaxStIn}

\* a counter that is not advanced after the yield
CountStuck(i) == i

\* count += 1 (LimitCmd), i += 1 (CountCmd)
CountBump(i) == i + 1

\* if count >= self.opts.count
LimitReached(count, limit) == count >= limit

StInit ==
    /\ stCmd \in StCmds
    /\ stIn \in StInputs
    /\ stLimit \in IF stCmd = "limit" THEN (0 - 1)..MaxLimit ELSE {0}
    /\ stPc = "next" /\ stRead = 0 /\ stI = 0 /\ stOut = <<>> /\ stPrinted = <<>>

StConst == UNCHANGED <<stCmd, stIn, stLimit, parVars, mergeVars, dmonVars, scopeVars, rcVars, teeVars, pureVars, bgVars, viewVars, parsVars, proxVars, ramVars>>

\* LimitCmd: async for item in genr: yield item
LimitNext ==
    /\ stCmd = "limit" /\ stPc = "next"
    /\ IF stRead < Len(stIn)
         THEN /\ stRead' = stRead + 1
              /\ stOut' = Append(stOut, stIn[stRead + 1])
              /\ stPc' = "yielded"
         ELSE /\ stPc' = "done"
              /\ UNCHANGED <<stRead, stOut>>
    /\ UNCHANGED <<stI, stPrinted>>
    /\ StConst

\* LimitCmd, resumed after the yield: count += 1, and the break at the limit
LimitResume ==
    /\ stCmd = "limit" /\ stPc = "yielded"
    /\ stI' = CountBump(stI)
    /\ IF LimitReached(CountBump(stI), stLimit)
         THEN /\ stPrinted' = Append(stPrinted, <<"limit reached", stLimit>>)
              /\ stPc' = "done"
         ELSE /\ stPc' = "next"
              /\ UNCHANGED stPrinted
    /\ UNCHANGED <<stRead, stOut>>
    /\ StConst

\* CountCmd: async for item in genr: yield item; after the loop the printf
CountNext ==
    /\ stCmd = "count" /\ stPc = "next"
    /\ IF stRead < Len(stIn)
         THEN /\ stRead' = stRead + 1
              /\ stOut' = Append(stOut, stIn[stRead + 1])
              /\ stPc' = "yielded"
              /\ UNCHANGED stPrinted
         ELSE /\ stPrinted' = Append(stPrinted, <<"Counted", stI>>)
              /\ stPc' = "done"
              /\ UNCHANGED <<stRead, stOut>>
    /\ UNCHANGED stI
    /\ StConst

\* CountCmd, resumed after the yield: i += 1
CountResume ==
    /\ stCmd = "count" /\ stPc = "yielded"
    /\ stI' = CountBump(stI)
    /\ stPc' = "next"
    /\ UNCHANGED <<stRead, stOut, stPrinted>>
    /\ StConst

\* the consumer closes the generator while it is suspended at its yield
StreamClose ==
    /\ stPc = "yielded"
    /\ stPc' = "closed"
    /\ UNCHANGED <<stRead, stI, stOut, stPrinted>>
    /\ StConst

StNext ==
    \/ LimitNext
    \/ LimitResume
    \/ CountNext
    \/ CountResume
    \/ StreamClose

\* neither command is executing
StIdle ==
    /\ stCmd = "none" /\ stIn = <<>> /\ stLimit = 0
    /\ stPc = "done" /\ stRead = 0 /\ stI = 0 /\ stOut = <<>> /\ stPrinted = <<>>

(* ======================================================================= *)
(*                Runtime.getTeleProxy (storm.py 1246-1258)                *)
(* ======================================================================= *)
MaxTpCalls == 3
\* the number of getTeleProxy calls looked at

TpTasks == {"t1", "t2"}
TpUrls == {"u1", "u2"}

\* **opts as the caller wrote them: (name, value) pairs in keyword order
TpOpts ==
    {<<>>, <<<<"ssl", 1>>>>, <<<<"timeout", 2>>>>,
     <<<<"ssl", 1>>, <<"timeout", 1>>>>, <<<<"timeout", 1>>, <<"ssl", 1>>>>}

\* the order of the option names as strings
NameRank(name) == IF name = "ssl" THEN 1 ELSE 2

\* flat = tuple(sorted(opts.items())): the names of keywords are distinct,
\* so the items are ordered by name
Flat(opts) ==
    LET items == {opts[i] : i \in DOMAIN opts}
    IN  CHOOSE f \in [DOMAIN opts -> items] :
            /\ {f[i] : i \in DOMAIN f} = items
            /\ \A i, j \in DOMAIN f : i < j => NameRank(f[i][1]) < NameRank(f[j][1])

\* the key of self.proxies
TpKey(url, opts) == <<url, Flat(opts)>>

TpKeys == {TpKey(url, opts) : url \in TpUrls, opts \in TpOpts}

TpNoCall == [pc |-> "idle", key |-> <<>>]

TpInit ==
    /\ tpProxies = [k \in TpKeys |-> 0]
    /\ tpTask = [t \in TpTasks |-> TpNoCall]
    /\ tpOpened = <<>>
    /\ tpOnfini = {}
    /\ tpRets = <<>>

TpConst == UNCHANGED <<parVars, mergeVars, dmonVars, scopeVars, rcVars, teeVars, pureVars, bgVars, viewVars, parsVars, streamVars, ramVars>>

\* the calls started so far
TpCalls == Len(tpRets) + Cardinality({t \in TpTasks : tpTask[t].pc = "await"})

\* getTeleProxy up to its await: prox = self.proxies.get((url, flat)); a
\* handle found is returned, else the task awaits s_telepath.openurl
TpCall(t, url, opts) ==
    /\ tpTask[t].pc = "idle"
    /\ TpCalls < MaxTpCalls
    /\ LET key == TpKey(url, opts)
       IN  IF tpProxies[key] # 0
             THEN /\ tpRets' = Append(tpRets, [key |-> key, prox |-> tpProxies[key]])
                  /\ UNCHANGED tpTask
             ELSE /\ tpTask' = [tpTask EXCEPT ![t] = [pc |-> "await", key |-> key]]
                  /\ UNCHANGED tpRets
    /\ UNCHANGED <<tpProxies, tpOpened, tpOnfini>>
    /\ TpConst

\* openurl returns a new handle: self.proxies[(url, flat)] = prox;
\* self.snap.onfini(prox.fini); return prox
TpOpen(t) ==
    /\ tpTask[t].pc = "await"
    /\ LET key == tpTask[t].key
           prox == Len(tpOpened) + 1
       IN  /\ tpOpened' = Append(tpOpened, key)
           /\ tpProxies' = [tpProxies EXCEPT ![key] = prox]
           /\ tpOnfini' = tpOnfini \cup {prox}
           /\ tpRets' = Append(tpRets, [key |-> key, prox |-> prox])
    /\ tpTask' = [tpTask EXCEPT ![t] = TpNoCall]
    /\ TpConst

\* openurl raises: the exception leaves getTeleProxy, nothing is stored
TpOpenErr(t) ==
    /\ tpTask[t].pc = "await"
    /\ tpRets' = Append(tpRets, [key |-> tpTask[t].key, prox |-> 0])
    /\ tpTask' = [tpTask EXCEPT ![t] = TpNoCall]
    /\ UNCHANGED <<tpProxies, tpOpened, tpOnfini>>
    /\ TpConst

TpNext ==
    \/ (\E t \in TpTasks, url \in TpUrls, opts \in TpOpts : TpCall(t, url, opts))
    \/ (\E t \in TpTasks : TpOpen(t))
    \/ (\E t \in TpTasks : TpOpenErr(t))

\* no getTeleProxy call was made
TpIdle ==
    /\ tpProxies = [k \in TpKeys |-> 0] /\ tpTask = [t \in TpTasks |-> TpNoCall]
    /\ tpOpened = <<>> /\ tpOnfini = {} /\ tpRets = <<>>

(* ======================================================================= *)
(*                   RamStorage (cores/ram.py 41-169)                      *)
(* ======================================================================= *)
RamIdens == {"i1", "i2"}
RamProps == {"p1", "p2"}
RamValus == {1, 2}
RamTimes == {1, 2}
\* valu=None, mintime=None, maxtime=None
RamNone == 0

\* a row is the tuple (iden, prop, valu, time)
Row(iden, prop, valu, time) == <<iden, prop, valu, time>>

\* the rows handed to _addRows: rows that share an iden, a prop, a prop and
\* a valu, or everything but the time
RamRows ==
    {Row("i1", "p1", 1, 1), Row("i1", "p1", 1, 2), Row("i1", "p2", 1, 1),
     Row("i2", "p1", 1, 1), Row("i2", "p1", 2, 2)}

RamPropValus == RamProps \X RamValus

\* an entry of a defaultdict(set): the key is there or not; where it is,
\* the set may be empty
Gone == [has |-> FALSE, rows |-> {}]
Held(rows) == [has |-> TRUE, rows |-> rows]

\* d.get(key, ()) and d.get(key): the rows under key, none where the key is absent
DictGet(d, key) == IF d[key].has THEN d[key].rows ELSE {}

\* d[key] of a defaultdict(set): an absent key is inserted with an empty set
DictItem(d, key) == IF d[key].has THEN d ELSE [d EXCEPT ![key] = Held({})]

\* _initCoreStor
RamInit ==
    /\ rowsbyid = [i \in RamIdens |-> Gone]
    /\ rowsbyprop = [p \in RamProps |-> Gone]
    /\ rowsbyvalu = [pv \in RamPropValus |-> Gone]
    /\ ramPc = "idle"
    /\ ramTodo = {}

RamConst == UNCHANGED <<parVars, mergeVars, dmonVars, scopeVars, rcVars, teeVars, pureVars, bgVars, viewVars, parsVars, streamVars, proxVars>>

\* the body of the loop of _addRows: self.rowsbyX[key].add(row)
DictAdd(d, key, row) == [d EXCEPT ![key] = Held(DictGet(d, key) \cup {row})]

\* a removal that leaves the emptied set in the index
DictDiscardKeep(d, key, row) ==
    LET e == DictItem(d, key)
    IN  [e EXCEPT ![key] = Held(e[key].rows \ {row})]

\* _delRawRow for rowsbyprop and rowsbyvalu: s = d[key]; s.discard(row);
\* if not s: d.pop(key, None)
DictDiscard(d, key, row) ==
    LET e == DictItem(d, key)
        left == e[key].rows \ {row}
    IN  [e EXCEPT ![key] = IF left = {} THEN Gone ELSE Held(left)]

\* _delRawRow for rowsbyid: byid = self.rowsbyid.get(row[0]); discard if
\* it is not None
ByIdDiscard(d, row) ==
    IF d[row[1]].has THEN [d EXCEPT ![row[1]] = Held(d[row[1]].rows \ {row})] ELSE d

\* getRowsByProp(prop, valu, mintime, maxtime) with limit=None
GetRowsByProp(prop, valu, mintime, maxtime) ==
    LET rows == IF valu = RamNone THEN DictGet(rowsbyprop, prop)
                ELSE DictGet(rowsbyvalu, <<prop, valu>>)
    IN  {row \in rows : /\ ~(mintime # RamNone /\ row[4] < mintime)
                        /\ ~(maxtime # RamNone /\ row[4] >= maxtime)}

\* getRowsByIdProp / the list comprehensions of _delRowsByIdProp
GetRowsByIdProp(iden, prop, valu) ==
    {row \in DictGet(rowsbyid, iden) : row[2] = prop /\ (valu = RamNone \/ row[3] = valu)}

\* an operation begins its loop over rows, or returns when there are none
RamBegin(pc, rows) ==
    /\ ramTodo' = rows
    /\ ramPc' = IF rows = {} THEN "idle" ELSE pc

\* _addRows(rows)
AddRows(rows) ==
    /\ ramPc = "idle"
    /\ RamBegin("add", rows)
    /\ UNCHANGED <<rowsbyid, rowsbyprop, rowsbyvalu>>
    /\ RamConst

\* one pass of the loop of _addRows
AddRow(row) ==
    /\ ramPc = "add" /\ row \in ramTodo
    /\ rowsbyid' = DictAdd(rowsbyid, row[1], row)
    /\ rowsbyprop' = DictAdd(rowsbyprop, row[2], row)
    /\ rowsbyvalu' = DictAdd(rowsbyvalu, <<row[2], row[3]>>, row)
    /\ RamBegin("add", ramTodo \ {row})
    /\ RamConst

\* _delRowsById(iden): the rows are popped from rowsbyid, then deleted
DelRowsById(iden) ==
    /\ ramPc = "idle"
    /\ rowsbyid' = [rowsbyid EXCEPT ![iden] = Gone]
    /\ RamBegin("del", DictGet(rowsbyid, iden))
    /\ UNCHANGED <<rowsbyprop, rowsbyvalu>>
    /\ RamConst

\* _delRowsByIdProp(iden, prop, valu)
DelRowsByIdProp(iden, prop, valu) ==
    /\ ramPc = "idle"
    /\ RamBegin("del", GetRowsByIdProp(iden, prop, valu))
    /\ UNCHANGED <<rowsbyid, rowsbyprop, rowsbyvalu>>
    /\ RamConst

\* _delRowsByProp(prop, valu, mintime, maxtime)
DelRowsByProp(prop, valu, mintime, maxtime) ==
    /\ ramPc = "idle"
    /\ RamBegin("del", GetRowsByProp(prop, valu, mintime, maxtime))
    /\ UNCHANGED <<rowsbyid, rowsbyprop, rowsbyvalu>>
    /\ RamConst

\* _delRawRow(row), for one of the rows of the operation in progress
DelRawRow(row) ==
    /\ ramPc = "del" /\ row \in ramTodo
    /\ rowsbyid' = ByIdDiscard(rowsbyid, row)
    /\ rowsbyprop' = DictDiscard(rowsbyprop, row[2], row)
    /\ rowsbyvalu' = DictDiscard(rowsbyvalu, <<row[2], row[3]>>, row)
    /\ RamBegin("del", ramTodo \ {row})
    /\ RamConst

RamNext ==
    \/ (\E rows \in SUBSET RamRows : AddRows(rows))
    \/ (\E row \in RamRows : AddRow(row))
    \/ (\E iden \in RamIdens : DelRowsById(iden))
    \/ (\E iden \in RamIdens, prop \in RamProps, valu \in RamValus \cup {RamNone} :
          DelRowsByIdProp(iden, prop, valu))
    \/ (\E prop \in RamProps, valu \in RamValus \cup {RamNone},
           mintime \in RamTimes \cup {RamNone}, maxtime \in RamTimes \cup {RamNone} :
          DelRowsByProp(prop, valu, mintime, maxtime))
    \/ (\E row \in RamRows : DelRawRow(row))

\* an empty RamStorage
RamIdle ==
    /\ rowsbyid = [i \in RamIdens |-> Gone] /\ rowsbyprop = [p \in RamProps |-> Gone]
    /\ rowsbyvalu = [pv \in RamPropValus |-> Gone] /\ ramPc = "idle" /\ ramTodo = {}

(* ======================================================================= *)
(*                            specifications                               *)
(* ======================================================================= *)
ParIdle ==
    /\ size = 1 /\ badNodes = {} /\ genrRaises = FALSE /\ input0 = <<>> /\ genr = <<>>
    /\ inq = <<>> /\ outq = <<>> /\ pumpPc = "done" /\ pumpHold = None /\ pumpSent = 0
    /\ workPc = [w \in Workers |-> "unused"] /\ workHold = [w \in Workers |-> None]
    /\ exited = 0 /\ consPc = "done" /\ yielded = <<>> /\ failed = FALSE
    /\ workSnap = [w \in Workers |-> None]

MergeIdle ==
    /\ mApply = FALSE /\ mDiff = FALSE /\ mParent = FALSE /\ mAsroot = FALSE
    /\ mLayrNodes = <<>> /\ mGenr = <<>> /\ mPc = "done" /\ mNode = NoNode /\ mSode = NoSode
    /\ mAdds = <<>> /\ mSubs = <<>> /\ mCalls = <<>> /\ mConfirms = 0 /\ mPrinted = 0
    /\ mConsumed = 0 /\ mYielded = <<>> /\ mErr = "none" /\ mSodes = {}

DmonIdle ==
    /\ mgrEnabled = FALSE /\ mgrPc = "idle" /\ mgrFini = TRUE /\ dReg = <<>>
    /\ dmon = [d \in Dmons |-> NewDmon(TRUE)] /\ viewOk = [d \in Dmons |-> TRUE]
    /\ runFailed = FALSE

ScopeIdle ==
    /\ rtN = 0 /\ rtRoot = [s \in Scopes |-> 0] /\ rtFunc = [s \in Scopes |-> FALSE]
    /\ rtVars = [s \in Scopes |-> NoVars] /\ rtMade = 0 /\ lastSet = NoSet

\* the state after construction of the ParallelCmd subsystem, the others idle
InitPar == ParInit /\ MergeIdle /\ DmonIdle /\ ScopeIdle /\ RuntIdle /\ TeeIdle /\ PureIdle /\ BgIdle /\ VeIdle /\ PsIdle /\ StIdle /\ TpIdle /\ RamIdle

\* the state after construction of the Runtime subsystem, the others idle
InitScope == ScopeInit /\ ParIdle /\ MergeIdle /\ DmonIdle /\ RuntIdle /\ TeeIdle /\ PureIdle /\ BgIdle /\ VeIdle /\ PsIdle /\ StIdle /\ TpIdle /\ RamIdle

\* the state after construction of the MergeCmd subsystem, the others idle
InitMerge == MergeInit /\ ParIdle /\ DmonIdle /\ ScopeIdle /\ RuntIdle /\ TeeIdle /\ PureIdle /\ BgIdle /\ VeIdle /\ PsIdle /\ StIdle /\ TpIdle /\ RamIdle

\* the state after construction of the daemon subsystem, the others idle
InitDmon == DmonInit /\ ParIdle /\ MergeIdle /\ ScopeIdle /\ RuntIdle /\ TeeIdle /\ PureIdle /\ BgIdle /\ VeIdle /\ PsIdle /\ StIdle /\ TpIdle /\ RamIdle

SpecPar == InitPar /\ [][ParNext]_vars

SpecScope == InitScope /\ [][ScopeNext]_vars

SpecDmon == InitDmon /\ [][DmonNext]_vars

\* the event loop resumes a coroutine that is ready: a cancelled one, a new
\* one, one whose waitfini(timeout=1) timed out
SpecDmonFair ==
    /\ InitDmon /\ [][DmonNext]_vars
    /\ \A d \in Dmons : /\ WF_vars(CancelDeliver(d))
                         /\ WF_vars(DmonBegin(d))
                         /\ WF_vars(DmonTop(d))
                         /\ WF_vars(DmonWake(d))

SpecMerge == InitMerge /\ [][MergeNext]_vars

\* MergeCmd on nodes with a batch of fields, the other subsystems idle
InitMergeBig == MergeBigInit /\ ParIdle /\ DmonIdle /\ ScopeIdle /\ RuntIdle /\ TeeIdle /\ PureIdle /\ BgIdle /\ VeIdle /\ PsIdle /\ StIdle /\ TpIdle /\ RamIdle

SpecMergeBig == InitMergeBig /\ [][MergeNext]_vars

\* the event loop runs every task that is ready
SpecParFair ==
    /\ InitPar /\ [][ParNext]_vars
    /\ WF_vars(Pump)
    /\ \A w \in Workers : WF_vars(Worker(w))
    /\ WF_vars(Consume)

\* ParallelCmd at any width, the other subsystems idle
InitParAny == ParAnyInit /\ MergeIdle /\ DmonIdle /\ ScopeIdle /\ RuntIdle /\ TeeIdle /\ PureIdle /\ BgIdle /\ VeIdle /\ PsIdle /\ StIdle /\ TpIdle /\ RamIdle

SpecParAnyFair ==
    /\ InitParAny /\ [][ParNext]_vars
    /\ WF_vars(Pump)
    /\ \A w \in Workers : WF_vars(Worker(w))
    /\ WF_vars(Consume)

\* the state before the first Runtime is constructed, the other subsystems idle
InitRunt == RuntInit /\ ParIdle /\ MergeIdle /\ DmonIdle /\ ScopeIdle /\ TeeIdle /\ PureIdle /\ BgIdle /\ VeIdle /\ PsIdle /\ StIdle /\ TpIdle /\ RamIdle

SpecRunt == InitRunt /\ [][RuntNext]_vars

\* the state at the call of TeeCmd.execStormCmd, the other subsystems idle
InitTee == TeeInit /\ RuntIdle /\ ParIdle /\ MergeIdle /\ DmonIdle /\ ScopeIdle /\ PureIdle /\ BgIdle /\ VeIdle /\ PsIdle /\ StIdle /\ TpIdle /\ RamIdle

SpecTee == InitTee /\ [][TeeNext]_vars

\* the state at the call of PureCmd.execStormCmd, the other subsystems idle
InitPure == PureInit /\ RuntIdle /\ TeeIdle /\ ParIdle /\ MergeIdle /\ DmonIdle /\ ScopeIdle /\ BgIdle /\ VeIdle /\ PsIdle /\ StIdle /\ TpIdle /\ RamIdle

SpecPure == InitPure /\ [][PureNext]_vars

\* the state at the call of BackgroundCmd.execStormCmd, the other subsystems idle
InitBg == BgInit /\ RuntIdle /\ TeeIdle /\ PureIdle /\ ParIdle /\ MergeIdle /\ DmonIdle /\ ScopeIdle /\ VeIdle /\ PsIdle /\ StIdle /\ TpIdle /\ RamIdle

SpecBg == InitBg /\ [][BgNext]_vars

\* the state at the call of ViewExecCmd.execStormCmd, the other subsystems idle
InitView == VeInit /\ RuntIdle /\ TeeIdle /\ PureIdle /\ BgIdle /\ ParIdle /\ MergeIdle /\ DmonIdle /\ ScopeIdle /\ PsIdle /\ StIdle /\ TpIdle /\ RamIdle

SpecView == InitView /\ [][VeNext]_vars

\* a new Parser with its arguments registered, the other subsystems idle
InitPars == PsInit /\ RuntIdle /\ TeeIdle /\ PureIdle /\ BgIdle /\ VeIdle /\ ParIdle /\ MergeIdle /\ DmonIdle /\ ScopeIdle /\ StIdle /\ TpIdle /\ RamIdle

SpecPars == InitPars /\ [][PsNext]_vars

\* the state at the call of execStormCmd of limit or count, the other subsystems idle
InitStream == StInit /\ RuntIdle /\ TeeIdle /\ PureIdle /\ BgIdle /\ VeIdle /\ PsIdle /\ ParIdle /\ MergeIdle /\ DmonIdle /\ ScopeIdle /\ TpIdle /\ RamIdle

SpecStream == InitStream /\ [][StNext]_vars

\* a Runtime whose proxies are empty, the other subsystems idle
InitProx == TpInit /\ RuntIdle /\ TeeIdle /\ PureIdle /\ BgIdle /\ VeIdle /\ PsIdle /\ StIdle /\ ParIdle /\ MergeIdle /\ DmonIdle /\ ScopeIdle /\ RamIdle

SpecProx == InitProx /\ [][TpNext]_vars

\* a new RamStorage, the other subsystems idle
InitRam == RamInit /\ RuntIdle /\ TeeIdle /\ PureIdle /\ BgIdle /\ VeIdle /\ PsIdle /\ StIdle /\ TpIdle /\ ParIdle /\ MergeIdle /\ DmonIdle /\ ScopeIdle

SpecRam == InitRam /\ [][RamNext]_vars

(* ======================================================================= *)
(*                               properties                                *)
(* ======================================================================= *)
\* neither the upstream generator nor the sub-query raises on this input
NoFault == ~genrRaises /\ \A i \in DOMAIN input0 : input0[i] \notin badNodes

\* C1: with a sub-query that emits each item it receives and no failure,
\* ParallelCmd never yields an item it was not given, ends its stream for
\* every width and every interleaving, and has then yielded exactly the
\* input items, each as often as it occurs in the input.
C1_ParallelYieldsAll ==
    /\ [](NoFault => \A x \in DOMAIN SeqBag(yielded) :
                        x \in DOMAIN SeqBag(input0) /\ SeqBag(yielded)[x] <= SeqBag(input0)[x])
    /\ [](NoFault /\ consPc = "done" => SeqBag(yielded) = SeqBag(input0))
    /\ [](NoFault => <>(consPc = "done"))

C1_Witness ==
    /\ NoFault /\ consPc = "done" /\ size >= 2
    /\ Len(input0) >= 2 /\ yielded # input0 /\ SeqBag(yielded) = SeqBag(input0)

\* C3: once pump() or a pipeline() has raised, the consuming loop never
\* returns normally, and it eventually re-raises the exception.
C3_ParallelReraises ==
    /\ [](failed => consPc # "done")
    /\ [](failed => <>(consPc = "raised"))

C3_Witness ==
    /\ consPc = "raised" /\ failed /\ ~genrRaises /\ yielded # <<>>
    /\ \E w \in Workers : workPc[w] = "cancelled"

\* C4: in preview mode no storNodeEdits call is ever made; in apply mode
\* every call on layers[1] carries additive edits only and every call on
\* layers[0] carries subtractive edits only.
C4_MergeEditSides ==
    /\ ~mApply => mCalls = <<>> /\ mAdds = <<>> /\ mSubs = <<>>
    /\ \A i \in DOMAIN mCalls :
          /\ mCalls[i].layr \in {0, 1}
          /\ mCalls[i].edits # <<>>
          /\ mCalls[i].layr = 1 => \A j \in DOMAIN mCalls[i].edits : mCalls[i].edits[j] \in AddEdits
          /\ mCalls[i].layr = 0 => \A j \in DOMAIN mCalls[i].edits : mCalls[i].edits[j] \in SubEdits

C4_Witness ==
    /\ mApply /\ mPc = "next" /\ Len(mYielded) = 2 /\ Len(mCalls) = 2
    /\ \E i, j \in DOMAIN mCalls : mCalls[i].layr = 1 /\ mCalls[j].layr = 0 /\ Len(mCalls[i].edits) >= 3

\* C5: in a view without a parent the command raises CantMergeView in its
\* first step, having consumed no input, made no permission check, printed
\* nothing, called no layer and yielded nothing.
C5_MergeNotAFork ==
    (~mParent /\ mPc # "start") =>
        /\ mPc = "raised" /\ mErr = "CantMergeView"
        /\ mConsumed = 0 /\ mConfirms = 0 /\ mPrinted = 0
        /\ mCalls = <<>> /\ mAdds = <<>> /\ mSubs = <<>> /\ mYielded = <<>>

C5_Witness == mErr = "CantMergeView" /\ mGenr # <<>> /\ mApply /\ mDiff

Terminal == {"fatal", "stopped"}

\* C6 as claimed: whenever the daemon's query raises an exception that is
\* not a cancellation, the status becomes error, one error entry is added
\* to the run-log and the error indicator is set.
C6_Claim ==
    [][\A d \in Dmons : \A kind \in {"stormexit", "exc"} :
          DmonEnd(d, kind) =>
              /\ dmon'[d].status = "error"
              /\ dmon'[d].runlog = Append(dmon[d].runlog, "err")
              /\ dmon'[d].err]_vars

\* C6, amended: an exception of the query other than StormExit and
\* cancellation sets the status to error, appends exactly one error entry
\* and sets the error indicator, and leaves the task waiting at the bottom
\* of the loop and the manager untouched; a StormExit ends the run as a
\* normal exit does.  After the back-off the loop comes round again, and
\* sets the status to running unless the daemon was stopped, replaced or
\* finished or its view is gone.
C6_DmonErrorRetry ==
    /\ [][\A d \in Dmons :
            DmonEnd(d, "exc") =>
                /\ dmon'[d].status = "error"
                /\ dmon'[d].runlog = Append(dmon[d].runlog, "err")
                /\ dmon'[d].err
                /\ dmon'[d].pc = "wait" /\ dmon'[d].task = "set" /\ dmon[d].task = "set"
                /\ UNCHANGED <<mgrEnabled, mgrPc, mgrFini, dReg>>]_vars
    /\ [][\A d \in Dmons :
            DmonEnd(d, "stormexit") =>
                dmon'[d].status = "sleeping" /\ dmon'[d].runlog = dmon[d].runlog]_vars
    /\ [][\A d \in Dmons :
            (DmonTop(d) /\ dmon[d].status = "error" /\ ~dmon[d].isfini /\ viewOk[d]) =>
                dmon'[d].status = "running" /\ dmon'[d].pc = "snap"]_vars
    /\ \A d \in Dmons :
          [](dmon[d].status = "error" /\ dmon[d].pc = "wait"
               => <>(dmon[d].status = "running" \/ dmon[d].pc \notin {"wait", "top"}))

C6_Witness ==
    \E d \in Dmons :
        /\ dmon[d].status = "running" /\ dmon[d].pc = "snap" /\ dmon[d].err
        /\ dmon[d].runlog = <<"err">> /\ ~mgrFini /\ mgrEnabled

\* C7 as claimed: the status of a daemon in fatal-error or stopped state
\* becomes running again only in a task that bump created.
C7_Claim ==
    [][\A d \in Dmons :
          (dmon[d].status \in Terminal /\ dmon'[d].status = "running") => dmon[d].runBy = "bump"]_vars

\* C7, amended: a loop that finds no view sets the status to fatal error
\* and returns; while the status is fatal error or stopped the only live
\* loop there can be is one that a later run() created and that has not
\* started an iteration, and the status becomes running again only in a
\* task created by bump or by DmonManager.start; bump leaves the daemon
\* with a new task, which starts an iteration unless it is stopped or
\* replaced first (or bump is called again and again for ever).
C7_DmonTerminal ==
    /\ [][\A d \in Dmons :
            (DmonTop(d) /\ ~dmon[d].isfini /\ ~viewOk[d]) =>
                dmon'[d].status = "fatal" /\ dmon'[d].pc = "exited"]_vars
    /\ [][\A d \in Dmons :
            (dmon[d].status \in Terminal /\ dmon'[d].status = "running") =>
                dmon[d].runBy \in {"bump", "start"}]_vars
    /\ [](\A d \in Dmons :
            (dmon[d].status \in Terminal /\ dmon[d].pc \in LivePcs) =>
                dmon[d].pc \in {"new", "top"} /\ dmon[d].runBy \in {"bump", "start"})
    /\ [][\A d \in Dmons :
            DmonBump(d) => dmon'[d].task = "set" /\ dmon'[d].pc = "new"]_vars
    /\ \A d \in Dmons :
          \/ []<><<DmonBump(d)>>_vars
          \/ [](dmon[d].runBy = "bump" /\ dmon[d].pc \in {"new", "top"}
                  => <>(dmon[d].runBy # "bump" \/ dmon[d].pc \notin LivePcs))

C7_Witness ==
    \E d \in Dmons : dmon[d].status = "fatal" /\ dmon[d].pc = "top" /\ dmon[d].runBy = "bump"

\* C8 as claimed: wherever in the loop the cancellation of the task lands
\* (opening the snapshot, streaming, the back-off wait), the status becomes
\* stopped and the run-log gets no entry.
C8_Claim ==
    [][\A d \in Dmons :
          (CancelDeliver(d) /\ dmon[d].dying \in {"snap", "stream", "wait"}) =>
              dmon'[d].status = "stopped" /\ dmon'[d].runlog = dmon[d].runlog]_vars

\* C9 as claimed: addDmon starts the daemon whenever the manager is enabled
\* and only registers it otherwise.
C9_Claim ==
    [][\A d \in Dmons, e \in BOOLEAN :
          AddDmon(d, e) =>
              IF mgrEnabled THEN dmon'[d].task = "set"
              ELSE dmon'[d].task = "none" /\ dmon'[d].status = "initialized"]_vars

\* C9, amended: addDmon starts the new daemon when the manager is enabled
\* and the definition's enabled flag is not false; otherwise it only
\* registers it.  A daemon on which run() has not been invoked (by
\* addDmon, start or bump) has no task and its status is initialized.
C9_AddDmonStarts ==
    /\ [][\A d \in Dmons, e \in BOOLEAN :
            AddDmon(d, e) =>
                /\ Registered(d)'
                /\ IF mgrEnabled /\ e
                     THEN dmon'[d].task = "set" /\ dmon'[d].pc = "new"
                     ELSE dmon'[d].task = "none" /\ dmon'[d].pc = "none"
                /\ dmon'[d].status = "initialized"]_vars
    /\ [](\A d \in Dmons :
            dmon[d].runBy = "none" =>
                dmon[d].task = "none" /\ dmon[d].pc = "none" /\ dmon[d].status = "initialized")

C9_Witness ==
    \E d \in Dmons :
        /\ mgrEnabled /\ Registered(d) /\ dmon[d].runBy = "addDmon"
        /\ dmon[d].task = "set" /\ dmon[d].pc = "new" /\ dmon[d].status = "initialized"

\* two sub-runtimes that getSubRuntime made from the same Runtime, as the
\* pipelines of ParallelCmd do
Siblings(s, t) ==
    /\ Live(s) /\ Live(t) /\ s # t
    /\ rtRoot[s] # 0 /\ rtRoot[s] = rtRoot[t]
    /\ ~rtFunc[s] /\ ~rtFunc[t]

\* C2 as claimed: a setVar in the sub-runtime of one pipeline never changes
\* what getVar returns in the sub-runtime of a sibling pipeline.
C2_Claim ==
    \A s \in Scopes, t \in Scopes :
        Siblings(s, t) =>
            \A name \in Names, valu \in Vals :
                GetVar(SetVar(rtVars, s, name, valu), t, name, DefV).val
                    = GetVar(rtVars, t, name, DefV).val

\* C10: in every chain of scopes, for a name bound in the vars of no
\* ancestor, getVar(name) on a scope returns what setVar(name, valu) on that
\* scope has just stored, whichever scope of the chain the value went to.
C10_SetThenGet ==
    /\ \A s \in Scopes, name \in Names, valu \in Vals :
          (Live(s) /\ \A a \in Ancestors(s) : rtVars[a][name] = NoValu) =>
              GetVar(SetVar(rtVars, s, name, valu), s, name, DefV).val = valu
    /\ (lastSet # NoSet /\ lastSet.fresh) =>
          GetVar(rtVars, lastSet.s, lastSet.name, DefV).val = lastSet.valu

C10_Witness ==
    /\ lastSet # NoSet /\ lastSet.fresh /\ lastSet.name = "x"
    /\ rtFunc[lastSet.s] /\ rtRoot[lastSet.s] # 0 /\ rtRoot[rtRoot[lastSet.s]] # 0
    /\ rtVars[lastSet.s]["x"] = NoValu
    /\ rtVars[rtRoot[rtRoot[lastSet.s]]]["x"] = lastSet.valu

\* C11: when a function scope does not hold a name that its root holds,
\* setVar of that name on the function scope replaces the root's binding:
\* getVar on the root then returns the new value.  (A builtin namespace
\* name is written locally whatever the root holds.)
C11_FuncScopeWritesRoot ==
    /\ \A c \in Scopes, name \in Names \ Ctors, valu \in Vals :
          (/\ Live(c) /\ rtFunc[c] /\ rtRoot[c] # 0
           /\ rtVars[rtRoot[c]][name] # NoValu /\ rtVars[c][name] = NoValu) =>
              GetVar(SetVar(rtVars, c, name, valu), rtRoot[c], name, DefV).val = valu
    /\ (/\ lastSet # NoSet /\ lastSet.name \notin Ctors /\ ~lastSet.local /\ ~lastSet.fresh
        /\ rtFunc[lastSet.s] /\ rtRoot[lastSet.s] # 0 /\ rtRoot[rtRoot[lastSet.s]] = 0) =>
          GetVar(rtVars, rtRoot[lastSet.s], lastSet.name, DefV).val = lastSet.valu

C11_Witness ==
    /\ lastSet # NoSet /\ lastSet.name = "x" /\ ~lastSet.local /\ ~lastSet.fresh
    /\ rtFunc[lastSet.s] /\ rtRoot[lastSet.s] # 0 /\ rtRoot[rtRoot[lastSet.s]] = 0
    /\ rtVars[lastSet.s]["x"] = NoValu
    /\ rtVars[rtRoot[lastSet.s]]["x"] = lastSet.valu

\* a value that no Runtime holds: where it turns up is where setVar writes
Probe == "probe"
\* the scope that setVar(name, ...) on s writes to
WriteScope(s, name) == CHOOSE t \in Scopes : SetVar(rtVars, s, name, Probe)[t][name] = Probe

\* C12 as claimed: popVar(name) on a scope removes the binding of name from
\* the scope that setVar(name, ...) on that scope writes to, and changes
\* nothing else.
C12_Claim ==
    \A s \in Scopes, name \in Names :
        Live(s) => PopVar(rtVars, s, name).vars = [rtVars EXCEPT ![WriteScope(s, name)][name] = NoValu]

\* C13: once isRuntVar(name) is true of a Runtime, no step of a
\* constructor and no operator of a classification pass makes it false.
C13_RuntSafeMonotonic ==
    [][\A r \in Runts, name \in RNames : IsRuntVar(r, name) => IsRuntVar(r, name)']_vars

C13_Witness ==
    /\ rcPc = "load" /\ rcIdx = 2 /\ rcVarz = {}
    /\ rcKids = <<<<"x", "true">>, <<"x", "false">>>>
    /\ IsRuntVar(rcN, "x")

\* C14 as claimed: a name that is classified not-runt-safe in a Runtime is
\* never reclassified runt-safe there, and a sub-runtime that inherits the
\* classification never has it runt-safe.
C14_Claim ==
    /\ [][\A r \in Runts, name \in RNames :
            rcRunt[r][name] = "false" => rcRunt'[r][name] # "true"]_vars
    /\ [](\A r \in Runts :
            (r = rcN /\ rcRoot # 0 /\ rcPc \in {"vars", "ctors", "load"}) =>
                \A name \in RNames : rcRunt[rcRoot][name] = "false" => rcRunt[r][name] # "true")

\* C14, amended: a name classified not-runt-safe stays so through the
\* later operators of the pass, and a sub-runtime inherits it as
\* not-runt-safe, unless an operator of the pass reports the name runt-safe
\* or the Runtime is constructed with the name among its vars or with a
\* root that has the name runt-safe: those, and only those, reclassify it
\* as runt-safe.
C14_NotRuntSafeUntilReported ==
    /\ [][\A r \in Runts, name \in RNames :
            (rcRunt[r][name] = "false" /\ rcRunt'[r][name] # "false") =>
                /\ rcRunt'[r][name] = "true" /\ r = rcN
                /\ \/ RuntLoad /\ rcKids[rcIdx + 1] = <<name, "true">>
                   \/ RuntVars /\ name \in rcVarz
                   \/ RuntInherit /\ rcRoot # 0 /\ rcRunt[rcRoot][name] = "true"]_vars
    /\ [][RuntInherit =>
            \A name \in RNames :
                (rcRoot # 0 /\ rcRunt[rcRoot][name] = "false") => rcRunt'[rcN][name] = "false"]_vars
    /\ [][\A name \in RNames :
            (RuntLoad /\ rcRunt[rcN][name] = "false" /\ rcKids[rcIdx + 1] # <<name, "true">>) =>
                rcRunt'[rcN][name] = "false"]_vars

C14_Witness ==
    /\ rcN = 2 /\ rcRoot = 1 /\ rcPc = "load" /\ rcIdx = 1 /\ rcVarz = {}
    /\ rcRunt[1]["x"] = "false" /\ rcRunt[2]["x"] = "false"
    /\ rcKids[1] = <<"x", "false">>

\* the place of a yielded item in the order tee promises: by input item,
\* then by sub-query, the input item itself after every sub-query
TeeRank(it) ==
    (it.of * (teeK + 2) + (IF it.src = 0 THEN teeK + 1 ELSE it.src)) * (MaxSubOut + 1) + it.n

\* C15: every item tee yields other than an input item is an output of one
\* of its K sub-queries, executed on an input item whenever there is one;
\* without --join no input item is yielded; with --join each input item is
\* yielded exactly once, after the outputs of all K sub-queries for it and
\* before any output for the next item; for each item the sub-queries are
\* executed in the order given.
C15_TeeOrder ==
    /\ \A i \in DOMAIN teeOut :
          /\ teeOut[i].src \in 0..teeK
          /\ teeOut[i].src = 0 => teeJoin /\ teeOut[i].of \in 1..teeRead
          /\ teeOut[i].of = 0 => teeM = 0
    /\ \A i, j \in DOMAIN teeOut : i < j => TeeRank(teeOut[i]) < TeeRank(teeOut[j])
    /\ \A i, j \in DOMAIN teeExec :
          i < j => teeExec[i][2] * (teeK + 1) + teeExec[i][1] < teeExec[j][2] * (teeK + 1) + teeExec[j][1]
    /\ (teeJoin /\ teePc \in {"next", "done"}) =>
          \A x \in 1..teeRead : \E i \in DOMAIN teeOut : teeOut[i] = TeeItem(0, x, 0)
    /\ (teePc \in {"next", "done"} /\ teeM > 0) =>
          \A x \in 1..teeRead, k \in 1..teeK : \E i \in DOMAIN teeExec : teeExec[i] = <<k, x>>

C15_Witness ==
    /\ teePc = "done" /\ teeJoin /\ teeK = 2 /\ teeM = 2
    /\ Len(teeOut) = 2 * 2 * MaxSubOut + 2
    /\ teeOut[Len(teeOut)] = TeeItem(0, 2, 0)

\* C16: when the command definition requests asroot and the permission
\* storm.asroot.cmd.<name> is not allowed on the calling runtime, the
\* command raises AuthDeny in its first step: no sub-runtime is created,
\* the body is not executed, no input item is consumed, nothing is yielded.
C16_PureAuthDeny ==
    (pcAsroot /\ ~pcRuntRoot /\ ~pcUserPerm /\ pcPc # "start") =>
        /\ pcPc = "raised" /\ pcErr = "AuthDeny"
        /\ ~pcSubr /\ ~pcBody /\ pcRead = 0 /\ pcOut = 0

C16_Witness == pcErr = "AuthDeny" /\ pcAsroot /\ pcM > 0 /\ ~pcSubr

\* C17: when the arguments of background are not runt-safe the command
\* raises StormRuntimeError having read no input item, yielded nothing and
\* scheduled no task.
C17_BgNotRuntSafe ==
    (~bgSafe /\ bgPc # "start") =>
        /\ bgPc = "raised" /\ bgErr = "StormRuntimeError"
        /\ bgRead = 0 /\ bgOut = <<>> /\ bgTasks = 0 /\ bgTask = "none"

C17_Witness == bgErr = "StormRuntimeError" /\ bgM > 0 /\ bgValid /\ bgTasks = 0

\* C18 as claimed: the task is scheduled before the input is forwarded, so
\* whenever an item has been yielded the task has been scheduled; and the
\* finished command has scheduled exactly one task and yielded its input.
C18_Claim ==
    /\ bgOut # <<>> => bgTasks = 1
    /\ bgPc = "done" => bgTasks = 1 /\ bgOut = [i \in 1..bgM |-> i]

\* C18, amended: the command first yields its input, unchanged and in
\* order; only when the input stream has ended does it schedule the task,
\* at most once, and it returns without waiting for the task to finish.
\* The finished command has scheduled exactly one task and yielded its
\* whole input; a command whose consumer stopped reading, whose input
\* raised or whose query failed validation has scheduled none.
C18_BgForwardThenSchedule ==
    /\ bgOut = [i \in 1..bgRead |-> i] /\ bgRead <= bgM
    /\ bgTasks \in {0, 1}
    /\ bgTasks = 1 <=> bgPc = "done"
    /\ bgTasks = 1 <=> bgTask # "none"
    /\ bgPc \in {"sched", "done"} => bgRead = bgM
    /\ bgPc \in {"closed", "raised"} => bgTasks = 0

C18_Witness ==
    /\ bgPc = "done" /\ bgTasks = 1 /\ bgTask = "running" /\ bgM = 2 /\ bgOut = <<1, 2>>

\* C19: every nested query is started without input entities, and with
\* the variables of the item's path when it runs for an input item; only
\* input items are yielded, in input order, each once, and each only after
\* the nested query started for it has run to its end; the finished
\* command has yielded its whole input.
C19_ViewExecForwardsInput ==
    /\ \A r \in DOMAIN veRuns :
          /\ veRuns[r].inputs = <<>>
          /\ veRuns[r].vars <=> veRuns[r].of # 0
          /\ veM > 0 => veRuns[r].of = r
    /\ \E k \in 0..veRead : veOut = [i \in 1..k |-> VeInput(i)]
    /\ Len(veOut) <= veEnded /\ veEnded <= Len(veRuns)
    /\ (vePc = "done" /\ veM > 0) => Len(veOut) = veM /\ veEnded = veM

C19_Witness ==
    /\ vePc = "done" /\ veM = 2 /\ veOut = <<VeInput(1), VeInput(2)>>
    /\ veNested > 0 /\ Len(veRuns) = 2

\* C20: when the user lacks ('view', 'read') on the target view, the first
\* attempt to run the nested query raises AuthDeny out of the command: no
\* nested query is started, no input item is yielded, and the command
\* never finishes normally once it has made the attempt.
C20_ViewExecDenied ==
    (veViewOk /\ ~vePerm) =>
        /\ veRuns = <<>> /\ veOut = <<>> /\ veEnded = 0
        /\ vePc \in {"next", "open", "raised", "done"}
        /\ vePc = "raised" => veErr = "AuthDeny"
        /\ vePc = "done" => veM = 0 /\ ~veSafe
        /\ veRead <= 1

C20_Witness == veErr = "AuthDeny" /\ vePc = "raised" /\ veM = 2 /\ veRead = 1 /\ veOut = <<>>

\* C21: with --degrees (int, default 1) and the positional query registered,
\* ['--degrees', '3', 'hello'] parses to degrees=3 and query='hello', and []
\* gives no result and a non-empty list of diagnostics; in every result a
\* supplied option has the value that follows its last occurrence, an omitted
\* option has its registered default, and the items that are neither options
\* nor their values are bound to the positionals in registration order,
\* wherever the options stand among them.
C21_ParseBindsArgs ==
    LET argv == psArgv
        ns == psRetn.ns
        stores == {"--degrees", "--name"}
        optIdx(name) == {i \in 1..Len(argv) : argv[i] = StrV(name)}
        valIdx == {i + 1 : i \in UNION {optIdx(name) : name \in stores}}
        posIdx == {i \in 1..Len(argv) : ~IsOpt(psPars, argv[i]) /\ i \notin valIdx}
        nth(k) == CHOOSE i \in posIdx : Cardinality({j \in posIdx : j < i}) = k - 1
        last(name) == CHOOSE i \in optIdx(name) : \A j \in optIdx(name) : j <= i
        asInt(tok) == IF tok = StrV("3") THEN IntV(3) ELSE tok
    IN  (psPc \in {"parsed", "set", "raised"}) =>
        /\ (psPars = ParsDegrees /\ argv = <<StrV("--degrees"), StrV("3"), StrV("hello")>>) =>
              psRetn.ok /\ ns["degrees"] = IntV(3) /\ ns["query"] = StrV("hello")
        /\ (psPars = ParsDegrees /\ argv = <<>>) => ~psRetn.ok /\ psMesgs # <<>>
        /\ (psPars \in {ParsDegrees, ParsRequired} /\ psRetn.ok) =>
              /\ ns["degrees"] = IF optIdx("--degrees") = {} THEN IntV(1)
                                 ELSE asInt(argv[last("--degrees") + 1])
              /\ psPars = ParsRequired =>
                    optIdx("--name") # {} /\ ns["name"] = argv[last("--name") + 1]
              /\ posIdx # {} /\ ns["query"] = argv[nth(1)]
              /\ psPars = ParsRequired =>
                    ns["rest"] = ListV([k \in 1..(Cardinality(posIdx) - 1) |-> argv[nth(k + 1)]])

\* a result in which an option stands after the first positional and the
\* omitted --degrees has its default
C21_Witness ==
    /\ psPc = "parsed" /\ psPars = ParsRequired /\ psRetn.ok
    /\ Len(psArgv) = 4 /\ psArgv[1] = StrV("hello") /\ psArgv[2] = StrV("--name")
    /\ psRetn.ns["degrees"] = IntV(1) /\ psRetn.ns["rest"] = ListV(<<psArgv[4]>>)

\* C22: every failure to parse (a required option missing, an option without
\* its value, too few or too many positionals, '+' without a value, a value
\* its type rejects) leaves parse_args without an exception and without a
\* result, with at least one diagnostic line and the parser marked exited;
\* setArgv on a fresh command prints every diagnostic line and returns true
\* exactly when parse_args returned a result.
C22_ParseFailureIsHelp ==
    LET has(name) == \E i \in 1..Len(psArgv) : psArgv[i] = StrV(name)
        failing ==
            \/ psPars = ParsRequired /\ ~has("--name")
            \/ psPars = ParsDegrees /\ psArgv # <<>> /\ psArgv[Len(psArgv)] = StrV("--degrees")
            \/ psPars = ParsDegrees /\ psArgv = <<>>
            \/ psPars = ParsDegrees /\ psArgv = <<StrV("hello"), StrV("hello")>>
            \/ psPars = ParsRequired /\ psArgv = <<StrV("--name"), StrV("hello"), StrV("hello")>>
            \/ psPars = ParsDegrees /\ psArgv = <<StrV("--degrees"), StrV("hello"), StrV("hello")>>
            \/ psPars = ParsMixed /\ psArgv = <<StrV("--pair"), StrV("3")>>
    IN  (psPc \in {"parsed", "set", "raised"}) =>
        /\ psPc # "raised" /\ psErr = "none"
        /\ failing => ~psRetn.ok
        /\ ~psRetn.ok => psMesgs # <<>> /\ psExited
        /\ psPc = "set" => psPrinted = psMesgs /\ (psRet <=> psRetn.ok)

\* setArgv has returned false for a value that the type of --degrees rejects
C22_Witness ==
    /\ psPc = "set" /\ ~psRet /\ psPars = ParsDegrees
    /\ psArgv = <<StrV("--degrees"), StrV("hello"), StrV("hello")>>
    /\ psPrinted # <<>>

\* C23: limit with the argument count >= 0 yields exactly the first
\* min(count, M) of its M input items, in input order, and takes no further
\* item from its input.
C23_Claim ==
    (stCmd = "limit" /\ stLimit >= 0) =>
        LET most == IF stLimit < Len(stIn) THEN stLimit ELSE Len(stIn) IN
        /\ stRead <= most
        /\ Len(stOut) <= most
        /\ stPc = "done" => stOut = SubSeq(stIn, 1, most)

\* C24: count yields every input item unchanged and in input order and, once
\* its input is exhausted, prints 'Counted i nodes.' exactly once, with i the
\* number of items it yielded.
C24_CountYieldsAndPrints ==
    stCmd = "count" =>
        /\ stOut = SubSeq(stIn, 1, Len(stOut))
        /\ stPc = "done" => stOut = stIn /\ stPrinted = <<<<"Counted", Len(stOut)>>>>
        /\ stPc # "done" => stPrinted = <<>>

\* count has printed its line after an input of two items
C24_Witness ==
    /\ stCmd = "count" /\ stPc = "done" /\ Len(stIn) = 2 /\ stPrinted # <<>>

\* C25: sibling ParallelCmd workers never share a data-snapshot handle: the
\* sub-runtime of each of the N workers runs on a snapshot of its own,
\* distinct from the snapshot of every sibling worker.
C25_Claim ==
    \A w1, w2 \in Workers :
        (w1 # w2 /\ workPc[w1] # "unused" /\ workPc[w2] # "unused") =>
            workSnap[w1] # workSnap[w2]

\* the edits that the calls on one layer have applied, in order
RECURSIVE AppliedEdits(_, _)
AppliedEdits(calls, layr) ==
    IF calls = <<>> THEN <<>>
    ELSE (IF Head(calls).layr = layr THEN Head(calls).edits ELSE <<>>)
         \o AppliedEdits(Tail(calls), layr)

\* C26: in apply mode neither the pending add batch nor the pending sub batch
\* ever holds more than the flush threshold (1000) of edits, whichever kind of
\* field is staged and however many fields the entity has.
C26_Claim ==
    mApply => Len(mAdds) <= FlushSize /\ Len(mSubs) <= FlushSize

\* C27: the command flushes before it moves to the next entity: when an
\* entity has been yielded again both batches are empty, every call made for
\* it carries its edits only, and as many additive edits have been applied to
\* the base as subtractive edits to the fork, one of each for every field.
C27_MergeFlushPerEntity ==
    mApply =>
        /\ mPc \in {"next", "done", "pass"} => mAdds = <<>> /\ mSubs = <<>>
        /\ (mPc \in {"next", "done"} /\ mNode # NoNode) =>
              /\ \A i \in DOMAIN mCalls : mCalls[i].buid = mNode
              /\ Len(AppliedEdits(mCalls, 1)) * 2 = mConfirms
              /\ Len(AppliedEdits(mCalls, 0)) * 2 = mConfirms

\* an entity with fields has been yielded again and another one follows
C27_Witness ==
    /\ mApply /\ mPc = "next" /\ mNode # NoNode /\ mGenr # <<>>
    /\ Len(mCalls) = 2 /\ mConfirms >= 4 /\ mYielded # <<>>

\* C28: in apply mode a failed permission check for any field of an entity
\* raises the authorization error with no edit of that entity applied to
\* either layer, for entities with any number of fields.
C28_Claim ==
    (mApply /\ mErr = "AuthDeny") => mCalls = <<>>

\* C29: apply mode never loses data: every call on the fork layer directly
\* follows the call that added the same fields to the base layer, so in every
\* state, also after a failed permission check or a failed storNodeEdits
\* call, every field retracted from the fork has been added to the base.
C29_MergeLosesNothing ==
    LET added == AppliedEdits(mCalls, 1)
        subbed == AppliedEdits(mCalls, 0)
    IN  /\ Len(subbed) <= Len(added)
        /\ \A i \in DOMAIN subbed :
              \E k \in DOMAIN AddEdit : added[i] = AddEdit[k] /\ subbed[i] = SubEdit[k]
        /\ \A i \in DOMAIN mCalls :
              mCalls[i].layr = 0 =>
                  /\ i > 1 /\ mCalls[i - 1].layr = 1
                  /\ Len(mCalls[i - 1].edits) = Len(mCalls[i].edits)

\* the call on the fork layer raised after the call on the base layer returned
C29_Witness ==
    /\ mErr = "StorErr" /\ Len(mCalls) = 1 /\ mCalls[1].layr = 1
    /\ mSubs # <<>> /\ mAdds = <<>>

\* C30: for every sequence of addDmon, start, stop, popDmon and bump, on any
\* registered daemon and whether the manager is enabled or not, run() is never
\* invoked on a daemon that already has a task: its assertion never fails.
C30_Claim == ~runFailed

\* C31 as claimed: every live daemon task belongs to the daemon registered
\* under its identifier (a replaced daemon leaves no task running), and when
\* DmonManager.stop returns or the manager is finalized no registered daemon
\* has a task.
C31_Claim ==
    /\ [](\A d \in Dmons : ~dmon[d].orphan)
    /\ [](\A d \in Dmons : mgrFini => dmon[d].task = "none")
    /\ [][MgrStopDone => \A d \in Dmons : Registered(d) => dmon'[d].task = "none"]_vars

\* C32 as claimed: a daemon whose definition has enabled = false is never run
\* by the manager (by addDmon or by start): as long as nothing but the
\* manager has acted on it, it has no task and its status is initialized.
C32_Claim ==
    \A d \in Dmons :
        ~dmon[d].ddefEnabled =>
            /\ dmon[d].runBy \notin {"addDmon", "start"}
            /\ dmon[d].runBy = "none" => dmon[d].task = "none" /\ dmon[d].status = "initialized"

\* C33 as claimed: the sub-runtime of a PureCmd body is asroot only if the
\* command definition requests asroot or the calling runtime is asroot; the
\* caller's permission storm.asroot.cmd.<name> alone does not elevate it.
C33_Claim == (pcSubr /\ pcSubRoot) => (pcAsroot \/ pcRuntRoot)

\* C34 as claimed: for calls of getTeleProxy with the same url and the same
\* options in any keyword order, sequential or interleaved at the await of
\* openurl, at most one handle is opened per key, every call that returns a
\* handle returns that one, and every opened handle is registered for release.
C34_Claim ==
    /\ \A i, j \in DOMAIN tpOpened : tpOpened[i] = tpOpened[j] => i = j
    /\ \A i, j \in DOMAIN tpRets :
          (tpRets[i].key = tpRets[j].key /\ tpRets[i].prox # 0 /\ tpRets[j].prox # 0)
              => tpRets[i].prox = tpRets[j].prox
    /\ \A h \in DOMAIN tpOpened : h \in tpOnfini

\* C35 as claimed: for every width, N <= 0 included, ParallelCmd ends: the
\* consuming loop returns or raises, it never waits on outq forever.
C35_Claim == <>(consPc \in {"done", "raised"})

\* C36 as claimed: setVar on a function scope, of a name that is not in its
\* vars, is no builtin namespace name and is bound in no ancestor, writes the
\* function scope's own vars and leaves every other scope unchanged, whatever
\* the kinds and the depth of its ancestors.
C36_Claim ==
    \A s \in Scopes, name \in Names \ Ctors, valu \in Vals :
        (/\ Live(s) /\ rtFunc[s] /\ rtVars[s][name] = NoValu
         /\ \A a \in Ancestors(s) : rtVars[a][name] = NoValu) =>
            SetVar(rtVars, s, name, valu) = [rtVars EXCEPT ![s][name] = valu]

\* C37: setVar of a name that is in the scope's own vars, or that is a
\* builtin namespace name, changes the vars of that scope only, be it a block
\* scope or a function scope: for every setVar possible at a reachable forest
\* and for the setVar actually performed.
C37_SetVarLocal ==
    /\ [](\A s \in Scopes, name \in Names, valu \in Vals :
            (Live(s) /\ (name \in Ctors \/ rtVars[s][name] # NoValu)) =>
                SetVar(rtVars, s, name, valu) = [rtVars EXCEPT ![s][name] = valu])
    /\ [][\A s \in Scopes, name \in Names, valu \in SetVals :
            (DoSetVar(s, name, valu) /\ (name \in Ctors \/ rtVars[s][name] # NoValu)) =>
                /\ rtVars'[s][name] = valu
                /\ \A t \in Scopes \ {s} : rtVars'[t] = rtVars[t]]_vars

\* a sub-runtime (block scope) that held x itself was given a new value of
\* x, and its root still holds the old one
C37_Witness ==
    /\ lastSet # NoSet /\ lastSet.local /\ lastSet.name = "x"
    /\ rtRoot[lastSet.s] # 0 /\ ~rtFunc[lastSet.s]
    /\ rtVars[lastSet.s]["x"] = lastSet.valu
    /\ rtVars[rtRoot[lastSet.s]]["x"] \notin {NoValu, lastSet.valu}

\* C38: on an empty input stream a tee whose arguments are runt-safe
\* executes its K sub-queries once each, without input and in the order
\* given, and one whose arguments are not runt-safe executes none; on a
\* non-empty input no execution is without input; the K sub-runtimes are
\* created before the first input item is read and none is created later.
C38_TeeEmptyInput ==
    /\ [](teeM = 0 /\ teeSafe =>
            /\ Len(teeExec) <= teeK
            /\ \A i \in DOMAIN teeExec : teeExec[i] = <<i, 0>>
            /\ teePc = "done" => Len(teeExec) = teeK)
    /\ [](teeM = 0 /\ ~teeSafe => teeExec = <<>> /\ teeOut = <<>> /\ teePc # "empty")
    /\ [](teeM > 0 => teePc # "empty" /\ \A i \in DOMAIN teeExec : teeExec[i][2] \in 1..teeM)
    /\ [](teePc \in {"next", "sub", "empty", "join", "done"} => teeRunts = teeK)
    /\ [][teeRunts' # teeRunts => teePc = "open" /\ teeRead = 0 /\ teeExec = <<>>]_vars
    /\ [](\A i \in DOMAIN teeExec : teeExec[i][1] \in 1..teeRunts)

\* a runt-safe tee of two sub-queries has ended on an empty input: both ran
\* once, in order, without input, and yielded
C38_Witness ==
    /\ teePc = "done" /\ teeM = 0 /\ teeSafe /\ teeK = 2
    /\ teeExec = <<<<1, 0>>, <<2, 0>>>>
    /\ Len(teeOut) = 2 * MaxSubOut

\* C39: getVar of a builtin namespace name on a Runtime that does not hold
\* the name calls the constructor once, stores the new object in that
\* Runtime's vars and returns it; on a Runtime that holds the name it calls
\* no constructor, changes nothing and returns what is held, so lookups
\* return the same object until setVar or popVar changes the binding.  The
\* Runtime's own binding comes before the constructor and the constructor
\* before the bindings of the root chain; no two Runtimes hold the same
\* constructed object.
C39_CtorMemoized ==
    /\ [][\A s \in Scopes, name \in Ctors :
            DoGetVar(s, name) =>
                LET g == GetVar(rtVars, s, name, DefV)
                IN  IF rtVars[s][name] = NoValu
                      THEN /\ g.val = LibBase(rtMade + 1) /\ rtMade' = rtMade + 1
                           /\ rtVars' = [rtVars EXCEPT ![s][name] = g.val]
                      ELSE /\ g.val = rtVars[s][name] /\ rtMade' = rtMade
                           /\ rtVars' = rtVars]_vars
    /\ [](\A s \in Scopes, name \in Ctors :
            Live(s) =>
                LET g == GetVar(rtVars, s, name, DefV)
                IN  /\ g.vars[s][name] = g.val
                    /\ g.made = (IF rtVars[s][name] = NoValu THEN 1 ELSE 0)
                    /\ rtVars[s][name] # NoValu => g.val = rtVars[s][name]
                    /\ rtVars[s][name] = NoValu => \A a \in Ancestors(s) : g.val # rtVars[a][name])
    /\ [][\A s \in Scopes, name \in Ctors :
            (rtVars[s][name] # NoValu /\ rtVars'[s][name] # rtVars[s][name]) =>
                \/ \E t \in Scopes, valu \in SetVals : DoSetVar(t, name, valu)
                \/ \E t \in Scopes : DoPopVar(t, name)]_vars
    /\ [](\A s, t \in Scopes, name \in Ctors, k \in 1..MaxMade :
            (Live(s) /\ Live(t) /\ rtVars[s][name] = LibBase(k)) =>
                k <= rtMade /\ (s # t => rtVars[t][name] # LibBase(k)))

\* a sub-runtime has constructed the namespace for itself although its root
\* held one already: each holds the object of its own lookup
C39_Witness ==
    /\ rtMade = 2 /\ rtN >= 2 /\ rtRoot[2] = 1
    /\ rtVars[1]["lib"] = LibBase(1) /\ rtVars[2]["lib"] = LibBase(2)

\* C40: whenever no operation of RamStorage is in progress, each row is
\* held under its iden in rowsbyid exactly if it is held under its prop in
\* rowsbyprop and exactly if it is held under its (prop, valu) in rowsbyvalu,
\* no index holds a row under a key that is not the row's, and neither
\* rowsbyprop nor rowsbyvalu has a key with an empty row set.
C40_RamIndexes ==
    ramPc = "idle" =>
        /\ \A row \in RamRows :
              /\ (row \in DictGet(rowsbyid, row[1])) = (row \in DictGet(rowsbyprop, row[2]))
              /\ (row \in DictGet(rowsbyprop, row[2]))
                    = (row \in DictGet(rowsbyvalu, <<row[2], row[3]>>))
        /\ \A iden \in RamIdens : \A row \in DictGet(rowsbyid, iden) : row[1] = iden
        /\ \A prop \in RamProps : \A row \in DictGet(rowsbyprop, prop) : row[2] = prop
        /\ \A pv \in RamPropValus : \A row \in DictGet(rowsbyvalu, pv) : <<row[2], row[3]>> = pv
        /\ \A prop \in RamProps : rowsbyprop[prop].has => rowsbyprop[prop].rows # {}
        /\ \A pv \in RamPropValus : rowsbyvalu[pv].has => rowsbyvalu[pv].rows # {}

\* rows were added and some deleted again: p2 is gone from rowsbyprop, the
\* emptied set of i2 is still in rowsbyid, and the rows left are in all indexes
C40_Witness ==
    /\ ramPc = "idle"
    /\ rowsbyid["i1"] = Held({Row("i1", "p1", 1, 2)})
    /\ rowsbyid["i2"] = Held({})
    /\ rowsbyprop["p1"] = Held({Row("i1", "p1", 1, 2)})
    /\ ~rowsbyprop["p2"].has
    /\ rowsbyvalu[<<"p1", 1>>] = Held({Row("i1", "p1", 1, 2)})
    /\ ~rowsbyvalu[<<"p1", 2>>].has

====
